---------------------------- MODULE Spec2Model ----------------------------
(***************************************************************************)
(* Model of the retrieval-and-answer core of the robotics-book backend:    *)
(* RAGService.get_response (app/rag.py) with its collaborators             *)
(* GeminiClient (app/gemini_client.py), EmbeddingService.embed_text        *)
(* (app/embeddings.py) and VectorDB.search_similar (app/vector_db.py).     *)
(*                                                                         *)
(* Text is a sequence of one-character strings.  A literal of the source   *)
(* whose spelling does not matter is Lit(tag, n): n characters, n being    *)
(* the length of the literal in the source.  Scores and confidences are    *)
(* integers in hundredths (0.5 is 50).  A Python dict is a TLA+ record     *)
(* whose DOMAIN is the set of keys present.                                *)
(***************************************************************************)
EXTENDS Integers, Sequences, FiniteSets, TLC

\* ------------------------------------------------------------------ bounds
MaxHits == 4        \* longest hit list the store answers with
MaxClock == 1       \* milliseconds that may elapse during one query

\* ------------------------------------------------------- text primitives
Min(a, b) == IF a <= b THEN a ELSE b
Max(a, b) == IF a >= b THEN a ELSE b

Lit(tag, n) == [i \in 1..n |-> tag]

\* s[:n]
Take(s, n) == SubSeq(s, 1, Min(n, Len(s)))

\* ", ".join(parts)
RECURSIVE Join(_, _)
Join(sep, parts) ==
    IF parts = <<>> THEN <<>>
    ELSE IF Len(parts) = 1 THEN parts[1]
    ELSE parts[1] \o sep \o Join(sep, Tail(parts))

UpperCase == <<"A","B","C","D","E","F","G","H","I","J","K","L","M",
               "N","O","P","Q","R","S","T","U","V","W","X","Y","Z">>
LowerCase == <<"a","b","c","d","e","f","g","h","i","j","k","l","m",
               "n","o","p","q","r","s","t","u","v","w","x","y","z">>

LowerChar(c) ==
    IF \E i \in 1..26 : UpperCase[i] = c
    THEN LowerCase[CHOOSE i \in 1..26 : UpperCase[i] = c]
    ELSE c

\* str.lower()
Lower(s) == [i \in 1..Len(s) |-> LowerChar(s[i])]

\* needle in hay
Contains(hay, needle) ==
    \E i \in 1..(Len(hay) - Len(needle) + 1) :
        SubSeq(hay, i, i + Len(needle) - 1) = needle

IsSpace(c) == c \in {" ", "\n", "\t"}

\* str.strip()
RECURSIVE LStrip(_)
LStrip(s) == IF s # <<>> /\ IsSpace(s[1]) THEN LStrip(Tail(s)) ELSE s
RECURSIVE RStrip(_)
RStrip(s) ==
    IF s # <<>> /\ IsSpace(s[Len(s)]) THEN RStrip(SubSeq(s, 1, Len(s) - 1)) ELSE s
Strip(s) == RStrip(LStrip(s))

\* len(text.split())
WordCount(s) ==
    Cardinality({i \in 1..Len(s) :
                    /\ ~IsSpace(s[i])
                    /\ (i = 1 \/ IsSpace(s[i - 1]))})

\* the elements of a list
Range(s) == {s[i] : i \in 1..Len(s)}

\* dict.get(key, default)
Get(d, key, default) == IF key \in DOMAIN d THEN d[key] ELSE default

\* Python None for an optional string argument
None == "<None>"


\* --------------------------------------------- app/gemini_client.py
\* Messages an upstream failure may carry.
MsgQuota == <<"Q","u","o","t","a"," ","e","x","c","e","e","d","e","d">>
Msg429 == <<"H","T","T","P"," ","4","2","9">>
MsgResourceExhausted == <<"R","e","s","o","u","r","c","e","E","x","h","a","u","s","t","e","d">>
MsgSafety == <<"S","A","F","E","T","Y"," ","s","t","o","p">>
MsgBlocked == <<"p","r","o","m","p","t"," ","b","l","o","c","k","e","d">>
MsgTimeout == <<"t","i","m","e","d"," ","o","u","t">>
MsgBoom == <<"b","o","o","m">>

\* Texts the upstream model may answer with.
TxtPlain == <<" ","R","O","S"," ","u","s","e","s"," ","n","o","d","e","s","\n">>
TxtUnsure == <<"I","'","m"," ","n","o","t"," ","s","u","r","e">>
TxtBlank == <<" ">>

\* One upstream call either answers with a text (possibly none) or raises.
UpText(t) == [kind |-> "text", text |-> t]
UpRaise(m) == [kind |-> "raise", msg |-> m]
UpstreamOutcomes ==
    {UpText(t) : t \in {TxtPlain, TxtUnsure, TxtBlank, <<>>}}
    \cup {UpRaise(m) : m \in {MsgQuota, Msg429, MsgResourceExhausted,
                              MsgSafety, MsgBlocked, MsgTimeout}}

\* What a call of a function does: return a value or raise an exception.
Return(v) == [kind |-> "return", val |-> v]
Raise(m) == [kind |-> "raise", msg |-> m]

KwQuota == <<"q","u","o","t","a">>
Kw429 == <<"4","2","9">>
KwResourceExhausted == <<"r","e","s","o","u","r","c","e","e","x","h","a","u","s","t","e","d">>
KwSafety == <<"s","a","f","e","t","y">>
KwBlocked == <<"b","l","o","c","k","e","d">>

\* any(keyword in error_str for keyword in ["quota", "429", "resourceexhausted"])
HasQuotaKeyword(error_str) ==
    \E kw \in {KwQuota, Kw429, KwResourceExhausted} : Contains(error_str, kw)

\* "safety" in error_str or "blocked" in error_str
HasSafetyKeyword(error_str) ==
    Contains(error_str, KwSafety) \/ Contains(error_str, KwBlocked)

max_retries == 2
delay == 1

uncertainty_phrases ==
    {  <<"i"," ","d","o","n","'","t"," ","k","n","o","w">>,
       <<"i","'","m"," ","n","o","t"," ","s","u","r","e">>,
       <<"i"," ","c","a","n","n","o","t">>,
       <<"i"," ","a","p","o","l","o","g","i","z","e">>,
       <<"n","o","t"," ","c","o","v","e","r","e","d">>,
       <<"n","o"," ","i","n","f","o","r","m","a","t","i","o","n">>,
       <<"q","u","o","t","a"," ","e","x","c","e","e","d","e","d">>,
       <<"i","s","n","'","t"," ","c","o","v","e","r","e","d">> }

\* mutant: the uncertainty penalty is floored at 0.0
Mutant_calculate_confidence(t, c) ==
    IF t = <<>> THEN 0
    ELSE LET word_count == WordCount(t)
             length_conf == IF word_count < 10 THEN 30
                            ELSE IF word_count < 30 THEN 60
                            ELSE IF word_count < 100 THEN 80
                            ELSE 90
             base_confidence == IF c THEN Min(length_conf + 15, 100) ELSE length_conf
         IN  IF \E phrase \in uncertainty_phrases : Contains(Lower(t), phrase)
             THEN Max(base_confidence - 30, 0)
             ELSE base_confidence

\* GeminiClient._calculate_confidence, in hundredths
_calculate_confidence(text, has_context) ==
    IF text = <<>> THEN 0
    ELSE LET word_count == WordCount(text)
             length_conf == IF word_count < 10 THEN 30
                            ELSE IF word_count < 30 THEN 60
                            ELSE IF word_count < 100 THEN 80
                            ELSE 90
             base_confidence == IF has_context THEN Min(length_conf + 15, 100)
                                ELSE length_conf
             text_lower == Lower(text)
         IN  IF \E phrase \in uncertainty_phrases : Contains(text_lower, phrase)
             THEN Max(base_confidence - 30, 10)
             ELSE base_confidence

GenSafetyApology == Lit("gen_safety_apology", 131)
GenGenericError == Lit("gen_generic_error", 71)
ChatSafetyApology == Lit("chat_safety_apology", 96)
ChatGenericError == Lit("chat_generic_error", 71)
QuotaExceededTag == Lit("[QUOTA_EXCEEDED]", 16)

\* mutant: the quota keywords are looked up in the message as raised,
\* without lower-casing it
Mutant_generate_content(up, context) ==
    IF up.kind = "text"
    THEN IF up.text = <<>>
         THEN Return([text |-> GenSafetyApology, confidence |-> 0,
                      safety_ratings |-> <<>>, blocked |-> TRUE])
         ELSE Return([text |-> Strip(up.text),
                      confidence |-> _calculate_confidence(Strip(up.text), context # <<>>),
                      safety_ratings |-> <<>>, blocked |-> FALSE])
    ELSE IF HasQuotaKeyword(up.msg)
         THEN Return([text |-> QuotaExceededTag, confidence |-> 0,
                      safety_ratings |-> <<>>, quota_exceeded |-> TRUE,
                      error |-> Take(up.msg, 300)])
         ELSE Return([text |-> GenGenericError, confidence |-> 0,
                      safety_ratings |-> <<>>, error |-> Take(up.msg, 300)])

\* Body of GeminiClient.generate_content for one upstream outcome.  The
\* whole body is inside try/except Exception, so it always returns.
generate_content(up, context) ==
    IF up.kind = "text"
    THEN IF up.text = <<>>
         THEN Return([text |-> GenSafetyApology, confidence |-> 0,
                      safety_ratings |-> <<>>, blocked |-> TRUE])
         ELSE LET response_text == Strip(up.text)
              IN  Return([text |-> response_text,
                          confidence |-> _calculate_confidence(response_text, context # <<>>),
                          safety_ratings |-> <<>>, blocked |-> FALSE])
    ELSE LET error_str == Lower(up.msg)
         IN  IF HasQuotaKeyword(error_str)
             THEN Return([text |-> QuotaExceededTag, confidence |-> 0,
                          safety_ratings |-> <<>>, quota_exceeded |-> TRUE,
                          error |-> Take(up.msg, 300)])
             ELSE Return([text |-> GenGenericError, confidence |-> 0,
                          safety_ratings |-> <<>>, error |-> Take(up.msg, 300)])

\* Body of GeminiClient.chat_with_context for the outcome of send_message.
chat_with_context(up, context) ==
    IF up.kind = "text"
    THEN IF up.text = <<>>
         THEN Return([response |-> ChatSafetyApology, confidence |-> 0,
                      safety_ratings |-> <<>>, blocked |-> TRUE])
         ELSE LET response_text == Strip(up.text)
              IN  Return([response |-> response_text,
                          confidence |-> _calculate_confidence(response_text, context # <<>>),
                          safety_ratings |-> <<>>, blocked |-> FALSE])
    ELSE LET error_str == Lower(up.msg)
         IN  IF HasQuotaKeyword(error_str)
             THEN Return([response |-> QuotaExceededTag, confidence |-> 0,
                          safety_ratings |-> <<>>, quota_exceeded |-> TRUE,
                          error |-> Take(up.msg, 300)])
             ELSE Return([response |-> ChatGenericError, confidence |-> 0,
                          safety_ratings |-> <<>>, error |-> Take(up.msg, 300)])

\* The decorated method fn called with one upstream outcome.
FuncBody(fn, up, context) ==
    IF fn = "chat_with_context" THEN chat_with_context(up, context)
    ELSE generate_content(up, context)

\* mutant: the wrapper sleeps delay after every failed attempt
Mutant_wrapper(outcome, attempt, retries, pause) ==
    IF outcome.kind = "return" THEN [kind |-> "return", val |-> outcome.val, sleep |-> 0]
    ELSE LET error_str == Lower(outcome.msg)
         IN  IF HasQuotaKeyword(error_str) \/ HasSafetyKeyword(error_str)
             THEN [kind |-> "raise", msg |-> outcome.msg, sleep |-> 0]
             ELSE IF attempt < retries - 1
             THEN [kind |-> "retry", sleep |-> pause]
             ELSE [kind |-> "raise", msg |-> outcome.msg, sleep |-> 0]

\* gemini_client.py 47-70: one iteration of the loop of the wrapper made by
\* retry_on_error(max_retries = retries, delay = pause), for the outcome
\* of func in that iteration: "return" ends the call with the value,
\* "raise" ends it with the exception, "retry" sleeps and loops.
wrapper(outcome, attempt, retries, pause) ==
    IF outcome.kind = "return" THEN [kind |-> "return", val |-> outcome.val, sleep |-> 0]
    ELSE LET error_str == Lower(outcome.msg)
         IN  IF HasQuotaKeyword(error_str) \/ HasSafetyKeyword(error_str)
             THEN [kind |-> "raise", msg |-> outcome.msg, sleep |-> 0]
             ELSE IF attempt < retries - 1
             THEN [kind |-> "retry", sleep |-> pause * (attempt + 1)]
             ELSE [kind |-> "raise", msg |-> outcome.msg, sleep |-> 0]

\* the wrapper of the three decorated methods
retry_on_error(outcome, attempt) == wrapper(outcome, attempt, max_retries, delay)


\* EmbeddingService.embed_text: gemini_client.embed_content answers with a
\* list or raises; an empty list and an exception both become None.
EmbNone == [kind |-> "None"]
EmbList(v) == [kind |-> "list", v |-> v]
EmbeddingVec == <<12, 34>>
MaxEmbedChars == 10000

\* mutant: a failed upstream call is answered with a default vector
Mutant_embed_content(text, up) ==
    IF text = <<>> \/ Strip(text) = <<>>
    THEN [val |-> <<>>, upstream |-> 0, sent |-> <<>>]
    ELSE IF up.kind = "raise" \/ up.vec = <<>>
    THEN [val |-> <<0, 0>>, upstream |-> 1, sent |-> Take(text, MaxEmbedChars)]
    ELSE [val |-> up.vec, upstream |-> 1, sent |-> Take(text, MaxEmbedChars)]

\* mutant: only the empty text is rejected, a text of blanks is embedded
Mutant_embed_content_blank(text, up) ==
    IF text = <<>>
    THEN [val |-> <<>>, upstream |-> 0, sent |-> <<>>]
    ELSE IF up.kind = "raise"
    THEN [val |-> <<>>, upstream |-> 1, sent |-> Take(text, MaxEmbedChars)]
    ELSE [val |-> up.vec, upstream |-> 1, sent |-> Take(text, MaxEmbedChars)]

\* Body of GeminiClient.embed_content: upstream is consulted only for a
\* text that is not blank; every failure is turned into [].
embed_content(text, up) ==
    IF text = <<>> \/ Strip(text) = <<>>
    THEN [val |-> <<>>, upstream |-> 0, sent |-> <<>>]
    ELSE IF up.kind = "raise"
    THEN [val |-> <<>>, upstream |-> 1, sent |-> Take(text, MaxEmbedChars)]
    ELSE [val |-> up.vec, upstream |-> 1, sent |-> Take(text, MaxEmbedChars)]

embed_text(outcome) ==
    IF outcome.kind = "raise" THEN EmbNone
    ELSE IF outcome.val = <<>> THEN EmbNone
    ELSE EmbList(outcome.val)

UpstreamEmbedOutcomes ==
    {[kind |-> "vec", vec |-> EmbeddingVec], [kind |-> "vec", vec |-> <<>>],
     UpRaise(MsgTimeout), UpRaise(MsgQuota)}

\* --------------------------------------------------- app/vector_db.py
\* Payloads of the points the collection holds, as add_embeddings writes
\* them: missing metadata is stored as "", content is cut at 1000.
MaxStoredContent == 1000
Points == 1..3
Payload(p) ==
    CASE p = 1 -> [chapter_id |-> <<"c","1">>, chapter_number |-> <<"1",".","1">>,
                   chapter_title |-> <<"R","O","S","2">>, module |-> <<"M","1">>,
                   section_id |-> <<"s","1">>, section_title |-> <<"I","n","t","r","o">>,
                   content |-> Lit("x", 20)]
      [] p = 2 -> [chapter_id |-> <<"c","2">>, chapter_number |-> <<>>,
                   chapter_title |-> <<"S","i","m">>, module |-> <<>>,
                   section_id |-> <<"s","2">>, section_title |-> <<>>,
                   content |-> Lit("y", MaxStoredContent)]
      [] OTHER -> [chapter_id |-> <<"c","3">>, chapter_number |-> <<"2">>,
                   chapter_title |-> <<>>, module |-> <<"M","2">>,
                   section_id |-> <<"s","3">>, section_title |-> <<>>,
                   content |-> Lit("z", 10)]

threshold == 70
max_results == 5

\* Score of the i-th point of an answer: descending, never below threshold.
ScoreAt(i) == 100 - 5 * i

\* What query_points may answer: at most limit points, best first.
StoreAnswers ==
    UNION {[1..n -> Points] : n \in 0..Min(MaxHits, max_results)}

\* VectorDB.search_similar: the dict built for each point of the answer;
\* a store failure is answered with [].
search_similar(store) ==
    IF store.kind = "raise" THEN <<>>
    ELSE [i \in 1..Len(store.points) |->
            [chapter_id |-> Payload(store.points[i]).chapter_id,
             chapter_number |-> Payload(store.points[i]).chapter_number,
             chapter_title |-> Payload(store.points[i]).chapter_title,
             module |-> Payload(store.points[i]).module,
             section_id |-> Payload(store.points[i]).section_id,
             section_title |-> Payload(store.points[i]).section_title,
             content |-> Payload(store.points[i]).content,
             similarity_score |-> ScoreAt(i)]]

\* vector_db.py 279-312: what query_points answers under the filters of the
\* call: the chapter_id condition keeps the points of that chapter, no
\* filters keep them all.  filters is <<>> for None.
ChapterIdChars(chapter) == IF chapter = "ch1" THEN <<"c","1">> ELSE <<>>
query_points(store, filters) ==
    IF store.kind = "raise" \/ filters = <<>> THEN store
    ELSE IF ~("chapter_id" \in DOMAIN filters[1]) \/ filters[1].chapter_id = None THEN store
    ELSE [kind |-> "points",
          points |-> SelectSeq(store.points,
                        LAMBDA p : Payload(p).chapter_id
                                       = ChapterIdChars(filters[1].chapter_id))]

\* --------------------------------------------------------- app/rag.py
\* mutant: the chapter hint of the request is passed as a filter
Mutant_SearchFilters(chapter) ==
    IF chapter = None THEN <<>> ELSE << [chapter_id |-> chapter] >>

\* rag.py 109: filters=None, whatever the request
SearchFilters(chapter) == <<>>

GenericApology == Lit("rag_generic_apology", 71)
SafeGeminiApology == Lit("safe_gemini_apology", 71)
QuotaExceededDefault == Lit("Quota exceeded", 14)
PreviewLen == 1000
CitedHits == 3
RefPreviewLen == 150
Ellipsis == <<".", ".", ".">>
CitationLabel == <<"\n", "\n">> \o Lit("sources_label", 15)
ChapterWord == Lit("Chapter ", 8)
RelevantChapters == Lit("relevant chapters", 17)

_build_out_of_scope_quota_message == Lit("out_of_scope", 1187)

\* f"Chapter {ch_num}: {ch_title}" when both are set, ch_title when only
\* the title is set, nothing otherwise.
RECURSIVE ChapterLabels(_)
ChapterLabels(results) ==
    IF results = <<>> THEN <<>>
    ELSE LET result == results[1]
             label == IF result.chapter_title = <<>> THEN <<>>
                      ELSE IF result.chapter_number # <<>>
                      THEN << ChapterWord \o result.chapter_number \o <<":", " ">>
                              \o result.chapter_title >>
                      ELSE << result.chapter_title >>
         IN  label \o ChapterLabels(Tail(results))

_build_enhanced_context(vector_results) ==
    Join(<<"\n">>,
         [i \in 1..Len(vector_results) |->
            LET result == vector_results[i]
            IN  Lit("=== Chapter ", 12) \o result.chapter_number \o <<":", " ">>
                \o result.chapter_title
                \o (IF result.module # <<>>
                    THEN <<" ", "(">> \o result.module \o <<")">> ELSE <<>>)
                \o Lit(" ===", 4) \o <<"\n">>
                \o result.content \o <<"\n">>])

\* mutant: the context is shown whole, never cut
Mutant_build_quota_fallback_response(query, context, vector_results) ==
    LET chapters_info == ChapterLabels(Take(vector_results, CitedHits))
        chapters_str == IF chapters_info # <<>> THEN Join(<<",", " ">>, chapters_info)
                        ELSE RelevantChapters
    IN  Lit("qf_head", 81) \o query \o Lit("qf_found", 40) \o chapters_str
        \o Lit("qf_intro", 49) \o context \o <<"\n", "\n">>
        \o (IF Len(context) > PreviewLen THEN Ellipsis ELSE <<>>)
        \o Lit("qf_note", 349) \o chapters_str

_build_quota_fallback_response(query, context, vector_results) ==
    LET chapters_info == ChapterLabels(Take(vector_results, CitedHits))
        chapters_str == IF chapters_info # <<>> THEN Join(<<",", " ">>, chapters_info)
                        ELSE RelevantChapters
        content_preview == IF Len(context) > PreviewLen THEN Take(context, PreviewLen)
                           ELSE context
    IN  Lit("qf_head", 81) \o query \o Lit("qf_found", 40) \o chapters_str
        \o Lit("qf_intro", 49) \o content_preview \o <<"\n", "\n">>
        \o (IF Len(context) > PreviewLen THEN Ellipsis ELSE <<>>)
        \o Lit("qf_note", 349) \o chapters_str

\* mutant: references only for the hits that are cited in the footer
Mutant_build_enhanced_references(vector_results) ==
    [i \in 1..Min(Len(vector_results), CitedHits) |->
        [chapter_id |-> vector_results[i].chapter_id,
         chapter_title |-> vector_results[i].chapter_title,
         section |-> vector_results[i].section_id,
         chapter_number |-> vector_results[i].chapter_number,
         module |-> vector_results[i].module,
         similarity_score |-> vector_results[i].similarity_score,
         content_preview |-> Take(vector_results[i].content, RefPreviewLen) \o Ellipsis]]

_build_enhanced_references(vector_results) ==
    [i \in 1..Len(vector_results) |->
        LET result == vector_results[i]
        IN  [chapter_id |-> result.chapter_id,
             chapter_title |-> result.chapter_title,
             section |-> IF result.section_title # <<>> THEN result.section_title
                         ELSE result.section_id,
             chapter_number |-> result.chapter_number,
             module |-> result.module,
             similarity_score |-> result.similarity_score,
             content_preview |-> Take(result.content, RefPreviewLen) \o Ellipsis]]

\* mutant: the footer cites every hit, not the first three
Mutant_add_citations_to_response(response, vector_results) ==
    IF ChapterLabels(vector_results) # <<>>
    THEN response \o CitationLabel \o Join(<<",", " ">>, ChapterLabels(vector_results))
    ELSE response

_add_citations_to_response(response, vector_results) ==
    IF vector_results = <<>> THEN response
    ELSE LET chapters == ChapterLabels(Take(vector_results, CitedHits))
         IN  IF chapters # <<>>
             THEN response \o CitationLabel \o Join(<<",", " ">>, chapters)
             ELSE response

\* mutant: the text is read from the "response" key only
Mutant_safe_gemini(outcome) ==
    IF outcome.kind = "return"
    THEN [response |-> Get(outcome.val, "response", <<>>),
          confidence |-> Get(outcome.val, "confidence", 0),
          safety_ratings |-> Get(outcome.val, "safety_ratings", <<>>),
          quota_exceeded |-> Get(outcome.val, "quota_exceeded", FALSE)]
    ELSE [response |-> SafeGeminiApology, confidence |-> 0,
          safety_ratings |-> <<>>,
          quota_exceeded |-> HasQuotaKeyword(Lower(outcome.msg))]

\* RAGService._safe_gemini applied to what the call fn(**kwargs) did.
_safe_gemini(outcome) ==
    IF outcome.kind = "return"
    THEN LET resp == outcome.val
         IN  IF Get(resp, "quota_exceeded", FALSE)
             THEN [response |-> Get(resp, "response", QuotaExceededDefault),
                   confidence |-> Get(resp, "confidence", 50),
                   safety_ratings |-> Get(resp, "safety_ratings", <<>>),
                   quota_exceeded |-> TRUE]
             ELSE [response |-> IF Get(resp, "response", <<>>) # <<>> THEN resp.response
                                ELSE Get(resp, "text", <<>>),
                   confidence |-> Get(resp, "confidence", 0),
                   safety_ratings |-> Get(resp, "safety_ratings", <<>>),
                   quota_exceeded |-> FALSE]
    ELSE LET error_str == Lower(outcome.msg)
         IN  IF HasQuotaKeyword(error_str)
             THEN [response |-> QuotaExceededTag, confidence |-> 0,
                   safety_ratings |-> <<>>, quota_exceeded |-> TRUE]
             ELSE [response |-> SafeGeminiApology, confidence |-> 0,
                   safety_ratings |-> <<>>, quota_exceeded |-> FALSE]

\* schemas.ChatResponse: confidence_score is validated to lie in [0, 1].
ChatResponse(response, confidence_score, source_type, references, query_time_ms) ==
    [response |-> response, confidence_score |-> confidence_score,
     source_type |-> source_type, references |-> references,
     query_time_ms |-> query_time_ms]

ChatResponseValid(r) == r.confidence_score >= 0 /\ r.confidence_score <= 100

\* query[:100] + "..." if len(query) > 100 else query
QueryLogLen == 100
QueryForLog(query) ==
    IF Len(query) > QueryLogLen THEN Take(query, QueryLogLen) \o Ellipsis ELSE query

\* StructuredLogger.log_chat_interaction
ResponseLogLen == 200
log_chat_interaction(user, q, response, confidence_score, execution_time, source_type, chapter) ==
    [event |-> "chat_interaction", user_id |-> user, query |-> q,
     response |-> IF Len(response) > ResponseLogLen
                  THEN Take(response, ResponseLogLen) \o Ellipsis ELSE response,
     confidence_score |-> confidence_score, execution_time |-> execution_time,
     source_type |-> source_type, chapter_id |-> chapter]

\* StructuredLogger.log_error
log_error(error_type, error_message, endpoint, user_id) ==
    [event |-> "system_error", error_type |-> error_type,
     error_message |-> error_message, endpoint |-> endpoint, user_id |-> user_id]


\* rag.py 54: query_embedding is None or an empty list
NoEmbedding(embedding) ==
    embedding.kind = "None" \/ (embedding.kind = "list" /\ Len(embedding.v) = 0)

\* The three outcomes of the decision tree of get_response; each gives the
\* ChatResponse to return and the chat-interaction event logged before it.
Answer(user, q, chapter, response, logged, confidence, source_type, references, t) ==
    [chat |-> ChatResponse(response, confidence, source_type, references, t),
     log |-> log_chat_interaction(IF user = None THEN "anonymous" ELSE user,
                                  QueryForLog(q), logged, confidence,
                                  t, source_type, chapter)]

\* rag.py 54-102: no embedding for the query
EmbeddingFailedAnswer(user_id, query, chapter_id, gemini_response, query_time_ms) ==
    IF Get(gemini_response, "quota_exceeded", FALSE)
    THEN LET fallback_message == _build_out_of_scope_quota_message
         IN  Answer(user_id, query, chapter_id, fallback_message,
                    Take(fallback_message, ResponseLogLen), 0,
                    "embedding_failed_quota_exceeded", <<>>, query_time_ms)
    ELSE Answer(user_id, query, chapter_id, gemini_response.response,
                gemini_response.response, gemini_response.confidence,
                "fallback", <<>>, query_time_ms)

\* mutant: the quota fallback passes the generator's confidence on
MutantHitsAnswer(user_id, query, chapter_id, vector_results, gemini_response, query_time_ms) ==
    LET context == _build_enhanced_context(vector_results)
        references == _build_enhanced_references(vector_results)
    IN  IF Get(gemini_response, "quota_exceeded", FALSE)
        THEN LET fallback_response ==
                     _build_quota_fallback_response(query, context, vector_results)
             IN  Answer(user_id, query, chapter_id, fallback_response,
                        Take(fallback_response, ResponseLogLen),
                        gemini_response.confidence,
                        "quota_fallback", references, query_time_ms)
        ELSE LET enhanced_response ==
                     _add_citations_to_response(gemini_response.response, vector_results)
             IN  Answer(user_id, query, chapter_id, enhanced_response,
                        Take(enhanced_response, ResponseLogLen),
                        gemini_response.confidence, "qdrant", references, query_time_ms)

\* rag.py 112-183: the search answered with hits
HitsAnswer(user_id, query, chapter_id, vector_results, gemini_response, query_time_ms) ==
    LET context == _build_enhanced_context(vector_results)
    IN  IF Get(gemini_response, "quota_exceeded", FALSE)
        THEN LET fallback_response ==
                     _build_quota_fallback_response(query, context, vector_results)
                 references == _build_enhanced_references(vector_results)
             IN  Answer(user_id, query, chapter_id, fallback_response,
                        Take(fallback_response, ResponseLogLen), 50,
                        "quota_fallback", references, query_time_ms)
        ELSE LET references == _build_enhanced_references(vector_results)
                 enhanced_response ==
                     _add_citations_to_response(gemini_response.response, vector_results)
             IN  Answer(user_id, query, chapter_id, enhanced_response,
                        Take(enhanced_response, ResponseLogLen),
                        gemini_response.confidence, "qdrant", references, query_time_ms)

\* rag.py 184-237: the search answered with nothing
NoHitsAnswer(user_id, query, chapter_id, gemini_response, query_time_ms) ==
    IF Get(gemini_response, "quota_exceeded", FALSE)
    THEN LET fallback_message == _build_out_of_scope_quota_message
         IN  Answer(user_id, query, chapter_id, fallback_message,
                    Take(fallback_message, ResponseLogLen), 0,
                    "out_of_scope_quota_exceeded", <<>>, query_time_ms)
    ELSE Answer(user_id, query, chapter_id, gemini_response.response,
                gemini_response.response, gemini_response.confidence,
                "fallback", <<>>, query_time_ms)

\* rag.py 239-255: the response of the except branch
ErrorResponse(query_time_ms) ==
    ChatResponse(GenericApology, 0, "error", <<>>, query_time_ms)

\* ------------------------------------------------------ state machine
Queries == {<<"w","h","y","?">>, Lit("Q", QueryLogLen + 1), <<>>, <<" ","\n","\t">>}
UserIds == {None, "u1"}
ChapterIds == {None, "ch1"}

VARIABLES
    pc,               \* where get_response stands
    query, user_id, chapter_id,
    clock,            \* perf_counter(), in milliseconds
    start_time,
    query_embedding,  \* what embed_text returned
    vector_results,   \* what search_similar returned
    fn,               \* the generator method _safe_gemini is called with
    attempt,          \* loop variable of retry_on_error's wrapper
    slept,            \* seconds the wrapper has slept in the current call
    embed_upstream,   \* outcomes of the upstream embedding calls of the query
    upstream,         \* outcomes of the upstream generation calls of the query
    fn_outcome,       \* <<what fn(**kwargs) did>> once the generator call is over
    gemini_response,  \* <<dict>> returned by _safe_gemini
    result,           \* <<ChatResponse>> once get_response has returned
    events,           \* structured log events emitted, oldest first
    calls,            \* collaborator calls made, oldest first
    searched,         \* <<the filters search_similar was called with, and what
                      \*   the store held for the query>>
    raised,           \* steps in which an unexpected exception was raised
    text, has_context,    \* arguments of _calculate_confidence
    confidence,           \* <<score>> once _calculate_confidence has returned
    client,           \* VectorDB.client: "None" or "connected"
    index,            \* the collection: point id -> payload
    now,              \* time.time() in microseconds, modulo IdSpace
    op,               \* the last VectorDB call: name, arguments, return value
    inserted,         \* add_embeddings calls that returned True
    removed,          \* points delete_by_chapter_id has removed
    content, max_length,  \* arguments of _split_content_into_sections
    final_sections,   \* <<list>> once _split_content_into_sections has returned
    md_text, max_chars, overlap,  \* arguments of chunk_text
    chunk_start,      \* loop variable i of chunk_text
    yielded,          \* what chunk_text has yielded so far
    chunk_pc,         \* where chunk_text stands
    passage,          \* argument of _extract_topics
    hashseed,         \* the string-hash seed of the running process
    extracted,        \* what the _extract_topics calls on passage returned
    retries_arg, delay_arg,   \* max_retries and delay given to retry_on_error
    wrapper_attempt,  \* loop variable attempt of the wrapper
    func_outcomes,    \* what the calls of func did, oldest first
    sleeps,           \* the time.sleep calls of the wrapper, oldest first
    wrapper_result,   \* <<how the wrapper ended>> once it has
    job_pc,           \* where main() of index_markdown stands in the file
    file_chunks,      \* per chunk of the file, what embed_content does for it
    chunk_i,          \* loop variable i: the chunks done so far
    batch_chapter_ids, batch_section_ids, batch_contents, batch_embeddings,
    upload_attempts,  \* the upload attempts made, oldest first
    total_chunks_processed,
    chapter_content,  \* chapter.content given to create_chapter_embeddings
    force_rebuild,
    section_ups,      \* per section, what the upstream embedding call does
    section_store_ok, \* per section, whether the store takes its upsert
    chapter_result    \* <<dict>> once create_chapter_embeddings has returned

rag_vars == <<pc, query, user_id, chapter_id, clock, start_time, query_embedding,
              vector_results, fn, attempt, slept, embed_upstream, upstream, fn_outcome,
              gemini_response, result, events, calls, searched, raised>>
confidence_vars == <<text, has_context, confidence>>
index_vars == <<client, index, now, op, inserted, removed>>
chunker_vars == <<content, max_length, final_sections>>
chunk_text_vars == <<md_text, max_chars, overlap, chunk_start, yielded, chunk_pc>>
topics_vars == <<passage, hashseed, extracted>>
retry_vars == <<retries_arg, delay_arg, wrapper_attempt, func_outcomes, sleeps,
                wrapper_result>>
job_vars == <<job_pc, file_chunks, chunk_i, batch_chapter_ids, batch_section_ids,
              batch_contents, batch_embeddings, upload_attempts, total_chunks_processed>>
chapter_vars == <<chapter_content, force_rebuild, section_ups, section_store_ok,
                  chapter_result>>
indexing_vars == <<chunk_text_vars, topics_vars, retry_vars, job_vars, chapter_vars>>
aux_vars == <<confidence_vars, index_vars, chunker_vars, indexing_vars>>

vars == <<rag_vars, aux_vars>>

request == <<query, user_id, chapter_id, start_time>>

\* No query is being served.
RagIdle ==
    /\ pc = "idle"
    /\ query = <<>>
    /\ user_id = None
    /\ chapter_id = None
    /\ clock = 0
    /\ start_time = 0
    /\ query_embedding = EmbNone
    /\ vector_results = <<>>
    /\ fn = "none"
    /\ attempt = 0
    /\ slept = 0
    /\ embed_upstream = <<>>
    /\ upstream = <<>>
    /\ fn_outcome = <<>>
    /\ gemini_response = <<>>
    /\ result = <<>>
    /\ events = <<>>
    /\ calls = <<>>
    /\ searched = <<>>
    /\ raised = {}

\* _calculate_confidence has not been called.
ConfidenceIdle ==
    /\ text = <<>>
    /\ has_context = FALSE
    /\ confidence = <<>>

\* vector_db.py 32-34: no client yet, nothing known of the collection.
NoOp == [name |-> "none"]
IndexIdle ==
    /\ client = "None"
    /\ index = << >>
    /\ now = 0
    /\ op = NoOp
    /\ inserted = 0
    /\ removed = 0

\* _split_content_into_sections has not been called.
ChunkerIdle ==
    /\ content = <<>>
    /\ max_length = 1000
    /\ final_sections = <<>>

\* chunk_text has not been called.
ChunkTextIdle ==
    /\ md_text = <<>>
    /\ max_chars = 800
    /\ overlap = 80
    /\ chunk_start = 0
    /\ yielded = <<>>
    /\ chunk_pc = "idle"

\* _extract_topics has not been called.
TopicsIdle ==
    /\ passage = <<>>
    /\ hashseed = 0
    /\ extracted = <<>>

\* no retry wrapper is running on its own
RetryIdle ==
    /\ retries_arg = max_retries
    /\ delay_arg = delay
    /\ wrapper_attempt = 0
    /\ func_outcomes = <<>>
    /\ sleeps = <<>>
    /\ wrapper_result = <<>>

\* the indexing job is not running
JobIdle ==
    /\ job_pc = "idle"
    /\ file_chunks = <<>>
    /\ chunk_i = 0
    /\ batch_chapter_ids = <<>>
    /\ batch_section_ids = <<>>
    /\ batch_contents = <<>>
    /\ batch_embeddings = <<>>
    /\ upload_attempts = <<>>
    /\ total_chunks_processed = 0

\* create_chapter_embeddings has not been called
ChapterIdle ==
    /\ chapter_content = <<>>
    /\ force_rebuild = FALSE
    /\ section_ups = <<>>
    /\ section_store_ok = <<>>
    /\ chapter_result = <<>>

IndexingIdle == ChunkTextIdle /\ TopicsIdle /\ RetryIdle /\ JobIdle /\ ChapterIdle

ServiceIdle == RagIdle /\ ConfidenceIdle /\ IndexIdle /\ ChunkerIdle

Init == ServiceIdle /\ IndexingIdle

\* rag.py 239-255: an exception raised in step reaches the except branch,
\* which logs it and returns the error response.  emitted are the events
\* the try block logged in the same step before raising.
ExceptBranch(step, emitted, user, start) ==
    /\ pc' = "done"
    /\ raised' = raised \cup {step}
    /\ events' = events \o emitted
                    \o << log_error("RAG_SERVICE_ERROR", MsgBoom, "/chat", user) >>
    /\ result' = << ErrorResponse(clock - start) >>

\* rag.py 41-49: entry, start_time and the request log line
Receive(q, u, c, fault) ==
    /\ UNCHANGED <<aux_vars, searched>>
    /\ pc = "idle"
    /\ query' = q
    /\ user_id' = u
    /\ chapter_id' = c
    /\ start_time' = clock
    /\ IF fault
       THEN ExceptBranch("request_logging", <<>>, u, clock)
       ELSE /\ pc' = "embed"
            /\ events' = Append(events, [event |-> "chat_request_received",
                                         user_id |-> u, query |-> QueryForLog(q)])
            /\ UNCHANGED <<result, raised>>
    /\ UNCHANGED <<clock, query_embedding, vector_results, fn, attempt, slept,
                   embed_upstream, upstream, fn_outcome, gemini_response, calls>>

\* rag.py 51-54: embed_text(query); one iteration of the retry wrapper
\* around embed_content per step
EmbedQuery(up, fault) ==
    /\ UNCHANGED <<aux_vars, searched>>
    /\ pc = "embed"
    /\ calls' = IF attempt = 0 THEN Append(calls, "embed_text") ELSE calls
    /\ IF fault
       THEN /\ ExceptBranch("embedding", <<>>, user_id, start_time)
            /\ UNCHANGED <<query_embedding, fn, attempt, slept, embed_upstream>>
       ELSE LET body == embed_content(query, up)
                r == retry_on_error(Return(body.val), attempt)
            IN  /\ embed_upstream' = IF body.upstream = 1 THEN Append(embed_upstream, up)
                                      ELSE embed_upstream
                /\ IF r.kind = "retry"
                   THEN /\ attempt' = attempt + 1
                        /\ slept' = slept + r.sleep
                        /\ UNCHANGED <<pc, query_embedding, fn>>
                   ELSE /\ query_embedding' = embed_text(r)
                        /\ attempt' = 0
                        /\ slept' = slept
                        /\ IF NoEmbedding(query_embedding')
                           THEN pc' = "generate" /\ fn' = "generate_content"
                           ELSE pc' = "search" /\ fn' = fn
                /\ UNCHANGED <<result, events, raised>>
    /\ UNCHANGED <<request, clock, vector_results, upstream, fn_outcome, gemini_response>>

\* rag.py 104-112: search_similar(query_embedding, threshold, max_results,
\* filters=None)
Search(store, fault) ==
    /\ UNCHANGED aux_vars
    /\ pc = "search"
    /\ calls' = Append(calls, "search_similar")
    /\ searched' = << [filters |-> SearchFilters(chapter_id), store |-> store] >>
    /\ IF fault
       THEN /\ ExceptBranch("search", <<>>, user_id, start_time)
            /\ UNCHANGED <<vector_results, fn>>
       ELSE /\ vector_results' = search_similar(query_points(store, searched'[1].filters))
            /\ IF vector_results' # <<>>
               THEN pc' = "context" /\ fn' = fn
               ELSE pc' = "generate" /\ fn' = "generate_content"
            /\ UNCHANGED <<result, events, raised>>
    /\ UNCHANGED <<request, clock, query_embedding, attempt, slept, embed_upstream,
                   upstream, fn_outcome, gemini_response>>

\* rag.py 113-117: _build_enhanced_context and _build_enhanced_prompt
BuildContext(fault) ==
    /\ UNCHANGED <<aux_vars, searched>>
    /\ pc = "context"
    /\ IF fault
       THEN ExceptBranch("context_building", <<>>, user_id, start_time) /\ fn' = fn
       ELSE /\ pc' = "generate"
            /\ fn' = "chat_with_context"
            /\ UNCHANGED <<result, events, raised>>
    /\ UNCHANGED <<request, clock, query_embedding, vector_results, attempt, slept,
                   embed_upstream, upstream, fn_outcome, gemini_response, calls>>

\* rag.py 485-513 with gemini_client.py 37-72: _safe_gemini calls fn; one
\* iteration of the retry wrapper per step, one upstream call per iteration
Generate(up) ==
    /\ UNCHANGED <<aux_vars, searched>>
    /\ pc = "generate"
    /\ LET context == IF fn = "chat_with_context"
                      THEN _build_enhanced_context(vector_results) ELSE <<>>
           r == retry_on_error(FuncBody(fn, up, context), attempt)
       IN  /\ upstream' = Append(upstream, up)
           /\ calls' = IF attempt = 0 THEN Append(calls, fn) ELSE calls
           /\ IF r.kind = "retry"
              THEN /\ attempt' = attempt + 1
                   /\ slept' = slept + r.sleep
                   /\ UNCHANGED <<pc, fn_outcome, gemini_response>>
              ELSE /\ fn_outcome' = << IF r.kind = "return" THEN Return(r.val)
                                       ELSE Raise(r.msg) >>
                   /\ gemini_response' = << _safe_gemini(fn_outcome'[1]) >>
                   /\ pc' = "respond"
                   /\ UNCHANGED <<attempt, slept>>
    /\ UNCHANGED <<request, clock, query_embedding, vector_results, fn,
                   embed_upstream, result, events, raised>>

\* mutant: a generator call that raised is followed by a second,
\* context-free generator call
Mutant_GenerateRaises(msg) ==
    /\ UNCHANGED <<aux_vars, searched>>
    /\ pc = "generate"
    /\ attempt = 0
    /\ calls' = calls \o <<fn, "generate_content">>
    /\ fn_outcome' = << Raise(msg) >>
    /\ gemini_response' = << _safe_gemini(Raise(msg)) >>
    /\ raised' = raised \cup {"generation"}
    /\ pc' = "respond"
    /\ UNCHANGED <<request, clock, query_embedding, vector_results, fn, attempt,
                   slept, embed_upstream, upstream, result, events>>

\* rag.py 514-534: the call fn(**kwargs) itself raises an unexpected
\* exception, which _safe_gemini turns into a dict
GenerateRaises(msg) ==
    /\ UNCHANGED <<aux_vars, searched>>
    /\ pc = "generate"
    /\ attempt = 0
    /\ calls' = Append(calls, fn)
    /\ fn_outcome' = << Raise(msg) >>
    /\ gemini_response' = << _safe_gemini(Raise(msg)) >>
    /\ raised' = raised \cup {"generation"}
    /\ pc' = "respond"
    /\ UNCHANGED <<request, clock, query_embedding, vector_results, fn, attempt,
                   slept, embed_upstream, upstream, result, events>>

\* The branch of the decision tree the query is in once generation is over.
CurrentAnswer ==
    IF NoEmbedding(query_embedding)
    THEN EmbeddingFailedAnswer(user_id, query, chapter_id, gemini_response[1],
                               clock - start_time)
    ELSE IF vector_results # <<>>
    THEN HitsAnswer(user_id, query, chapter_id, vector_results, gemini_response[1],
                    clock - start_time)
    ELSE NoHitsAnswer(user_id, query, chapter_id, gemini_response[1],
                      clock - start_time)

\* rag.py 61-102, 126-183, 193-237: build the answer, log the interaction,
\* construct and return the ChatResponse.  fault names the statement that
\* raises an unexpected exception, if any.
Respond(fault) ==
    /\ UNCHANGED <<aux_vars, searched>>
    /\ pc = "respond"
    /\ LET answer == CurrentAnswer
       IN  CASE fault = "build" ->
                  /\ vector_results # <<>> \/ gemini_response[1].quota_exceeded
                  /\ ExceptBranch("response_building", <<>>, user_id, start_time)
             [] fault = "log" -> ExceptBranch("interaction_logging", <<>>, user_id, start_time)
             [] fault = "construct" -> ExceptBranch("response_construction", <<answer.log>>, user_id, start_time)
             [] OTHER ->
                  IF ChatResponseValid(answer.chat)
                  THEN /\ events' = Append(events, answer.log)
                       /\ result' = << answer.chat >>
                       /\ pc' = "done"
                       /\ UNCHANGED raised
                  ELSE ExceptBranch("response_construction", <<answer.log>>, user_id, start_time)
    /\ UNCHANGED <<request, clock, query_embedding, vector_results, fn, attempt,
                   slept, embed_upstream, upstream, fn_outcome, gemini_response, calls>>

\* Time passes while a query is being served.
Tick ==
    /\ UNCHANGED <<aux_vars, searched>>
    /\ pc \notin {"idle", "done"}
    /\ clock < MaxClock
    /\ clock' = clock + 1
    /\ UNCHANGED <<pc, request, query_embedding, vector_results, fn, attempt, slept,
                   embed_upstream, upstream, fn_outcome, gemini_response, result,
                   events, calls, raised>>

StoreOutcomes ==
    {[kind |-> "points", points |-> a] : a \in StoreAnswers} \cup {[kind |-> "raise"]}

Next ==
    \/ \E q \in Queries, u \in UserIds, c \in ChapterIds, fault \in BOOLEAN :
          Receive(q, u, c, fault)
    \/ \E up \in UpstreamEmbedOutcomes, fault \in BOOLEAN : EmbedQuery(up, fault)
    \/ \E store \in StoreOutcomes, fault \in BOOLEAN : Search(store, fault)
    \/ \E fault \in BOOLEAN : BuildContext(fault)
    \/ \E up \in UpstreamOutcomes : Generate(up)
    \/ \E msg \in {MsgBoom, Msg429} : GenerateRaises(msg)
    \/ \E fault \in {"none", "build", "log", "construct"} : Respond(fault)
    \/ Tick

Spec == Init /\ [][Next]_vars


\* ---------------------------------------------------------- properties
Returned == pc = "done" /\ result # <<>>

\* the generator call returned a dict (it did not raise)
GeneratorReturned == fn_outcome # <<>> /\ fn_outcome[1].kind = "return"

\* the generator produced an answer: no quota, no block, no error
GenerationSucceeded ==
    /\ GeneratorReturned
    /\ Get(fn_outcome[1].val, "blocked", TRUE) = FALSE

\* the generator reported quota exhaustion in its result
GeneratorReportedQuota ==
    /\ GeneratorReturned
    /\ Get(fn_outcome[1].val, "quota_exceeded", FALSE)

\* the generator call ended in a transient or unknown error or a safety block
GenerationFailed ==
    /\ fn_outcome # <<>>
    /\ \/ /\ fn_outcome[1].kind = "raise"
          /\ fn_outcome[1].msg \notin {MsgQuota, Msg429, MsgResourceExhausted}
       \/ /\ fn_outcome[1].kind = "return"
          /\ \/ Get(fn_outcome[1].val, "blocked", FALSE)
             \/ /\ "error" \in DOMAIN fn_outcome[1].val
                /\ ~Get(fn_outcome[1].val, "quota_exceeded", FALSE)

\* C1 (as claimed): whenever a step of get_response raised an unexpected
\* exception, the call returns the error response (source_type "error",
\* confidence 0.0, the generic apology, no references) and nothing escapes.
C1_AnyStepRaisingGivesError ==
    (pc = "done" /\ raised # {}) =>
        /\ result # <<>>
        /\ result[1].source_type = "error"
        /\ result[1].confidence_score = 0
        /\ result[1].response = GenericApology
        /\ result[1].references = <<>>

\* the source types get_response returns for a successfully generated answer
SuccessAnswer == _safe_gemini(generate_content(UpText(TxtPlain), <<>>))
SuccessSourceTypes ==
    { EmbeddingFailedAnswer(None, <<>>, None, SuccessAnswer, 0).chat.source_type,
      NoHitsAnswer(None, <<>>, None, SuccessAnswer, 0).chat.source_type }
    \cup { HitsAnswer(None, <<>>, None, search_similar([kind |-> "points", points |-> <<p>>]),
                      SuccessAnswer, 0).chat.source_type : p \in Points }

\* C2 (as claimed): a response to a query whose generator call failed with
\* a transient or unknown error or a safety block never carries a
\* source_type that a successfully generated answer carries.
C2_FailedGenerationHasOwnSourceType ==
    (Returned /\ GenerationFailed) => result[1].source_type \notin SuccessSourceTypes

\* C3: with n >= 1 hits and a successful context-grounded generation the
\* response has the generator's confidence and exactly one reference per
\* hit, in hit order.
C3_HitsSuccessConfidenceAndReferences ==
    (Returned /\ raised = {} /\ vector_results # <<>> /\ GenerationSucceeded) =>
        /\ result[1].confidence_score = fn_outcome[1].val.confidence
        /\ Len(result[1].references) = Len(vector_results)
        /\ \A i \in 1..Len(vector_results) :
              /\ result[1].references[i].chapter_id = vector_results[i].chapter_id
              /\ result[1].references[i].similarity_score
                    = vector_results[i].similarity_score

C3_Witness ==
    /\ Returned /\ raised = {} /\ GenerationSucceeded
    /\ Len(vector_results) = MaxHits
    /\ vector_results[1].chapter_id # vector_results[MaxHits].chapter_id
    /\ result[1].confidence_score > 0
    /\ Len(result[1].references) = MaxHits

\* C4 (as claimed): source_type is one of vector, fallback, quota_fallback,
\* embedding_failed_quota_exceeded, out_of_scope_quota_exceeded, error, and
\* hits with a successful generation are answered with "vector".
SpecSourceTypes ==
    {"vector", "fallback", "quota_fallback", "embedding_failed_quota_exceeded",
     "out_of_scope_quota_exceeded", "error"}

C4_SourceTypeInSpecSet ==
    Returned =>
        /\ result[1].source_type \in SpecSourceTypes
        /\ (raised = {} /\ vector_results # <<>> /\ GenerationSucceeded)
              => result[1].source_type = "vector"

\* the text the generator returned, under whichever key it uses
GeneratedText ==
    IF "response" \in DOMAIN fn_outcome[1].val THEN fn_outcome[1].val.response
    ELSE fn_outcome[1].val.text

HitsAnswered == Returned /\ raised = {} /\ vector_results # <<>>

\* C5 (as claimed): with hits and a successful generation the response is
\* the generated text followed by a citation footer.
C5_FooterAlwaysAppended ==
    (HitsAnswered /\ GenerationSucceeded) =>
        LET r == result[1].response
            n == Len(GeneratedText)
        IN  /\ Len(r) >= n + Len(CitationLabel)
            /\ SubSeq(r, 1, n) = GeneratedText
            /\ SubSeq(r, n + 1, n + Len(CitationLabel)) = CitationLabel

HasTitle(hit) == hit.chapter_title # <<>>

\* C5 (amended): with hits and a successful generation the response is the
\* generated text followed by a footer naming the chapters of those of the
\* first 3 hits that have a chapter title, "Chapter <number>: <title>" when
\* the hit has a chapter number; when none of the first 3 hits has a title
\* the response is the generated text alone.
C5_FooterForTitledHits ==
    (HitsAnswered /\ GenerationSucceeded) =>
        LET titled == SelectSeq(SubSeq(vector_results, 1,
                                       Min(CitedHits, Len(vector_results))), HasTitle)
            names == [i \in 1..Len(titled) |->
                        IF titled[i].chapter_number = <<>> THEN titled[i].chapter_title
                        ELSE ChapterWord \o titled[i].chapter_number \o <<":", " ">>
                             \o titled[i].chapter_title]
        IN  result[1].response =
                IF titled = <<>> THEN GeneratedText
                ELSE GeneratedText \o CitationLabel \o Join(<<",", " ">>, names)

C5_Witness ==
    /\ HitsAnswered /\ GenerationSucceeded
    /\ Len(vector_results) > CitedHits
    /\ HasTitle(vector_results[CitedHits + 1])
    /\ HasTitle(vector_results[1])
    /\ Len(result[1].response) > Len(GeneratedText)

\* C6: with hits and a generator that reports quota exhaustion the
\* response is a quota_fallback with confidence exactly 0.5 and one
\* reference per hit, whatever confidence the generator reported.
C6_QuotaFallbackConfidenceAndReferences ==
    (HitsAnswered /\ GeneratorReportedQuota) =>
        /\ result[1].source_type = "quota_fallback"
        /\ result[1].confidence_score = 50
        /\ Len(result[1].references) = Len(vector_results)
        /\ \A i \in 1..Len(vector_results) :
              result[1].references[i].chapter_id = vector_results[i].chapter_id

C6_Witness ==
    /\ HitsAnswered /\ GeneratorReportedQuota
    /\ fn = "chat_with_context"
    /\ fn_outcome[1].val.confidence # 50
    /\ Len(vector_results) > 1
    /\ result[1].source_type = "quota_fallback"

\* C7 (as claimed): the quota-fallback response text equals the first 1000
\* characters of the context, plus the truncation marker when it is longer.
C7_ResponseEqualsContextPrefix ==
    (HitsAnswered /\ GeneratorReportedQuota) =>
        LET context == _build_enhanced_context(vector_results)
        IN  result[1].response =
                SubSeq(context, 1, Min(PreviewLen, Len(context)))
                \o (IF Len(context) > PreviewLen THEN Ellipsis ELSE <<>>)

\* C7 (amended): the quota-fallback response text is a fixed template
\* around a body; the body, between the introduction and the closing note,
\* is the first 1000 characters of the context, a blank line, and the
\* truncation marker only when the context is longer than 1000 characters.
C7_ResponseBodyIsContextPrefix ==
    (HitsAnswered /\ GeneratorReportedQuota) =>
        LET context == _build_enhanced_context(vector_results)
            r == result[1].response
            body == SubSeq(context, 1, Min(PreviewLen, Len(context)))
                    \o <<"\n", "\n">>
                    \o (IF Len(context) > PreviewLen THEN Ellipsis ELSE <<>>)
            starts == {i \in 2..Len(r) : r[i - 1] = "qf_intro" /\ r[i] # "qf_intro"}
        IN  /\ Cardinality(starts) = 1
            /\ \A i \in starts :
                  /\ Len(r) >= i + Len(body)
                  /\ SubSeq(r, i, i + Len(body) - 1) = body
                  /\ r[i + Len(body)] = "qf_note"

C7_Witness ==
    /\ HitsAnswered /\ GeneratorReportedQuota
    /\ Len(_build_enhanced_context(vector_results)) > PreviewLen
    /\ Len(result[1].response) > PreviewLen

\* C8: after a successful embedding and a search without hits the
\* generator is called as generate_content without context and never as
\* chat_with_context; a reported quota exhaustion is answered with the fixed
\* out-of-scope message as out_of_scope_quota_exceeded, anything else with
\* the generator's text and confidence as fallback; no references.
C8_NoHitsPath ==
    (Returned /\ raised = {} /\ ~NoEmbedding(query_embedding) /\ vector_results = <<>>) =>
        /\ calls = <<"embed_text", "search_similar", "generate_content">>
        /\ GeneratorReturned
        /\ result[1].references = <<>>
        /\ IF GeneratorReportedQuota
           THEN /\ result[1].response = _build_out_of_scope_quota_message
                /\ result[1].source_type = "out_of_scope_quota_exceeded"
           ELSE /\ result[1].response = GeneratedText
                /\ result[1].confidence_score = fn_outcome[1].val.confidence
                /\ GenerationSucceeded =>
                      result[1].confidence_score
                         = _calculate_confidence(result[1].response, FALSE)
                /\ result[1].source_type = "fallback"

C8_Witness ==
    /\ Returned /\ raised = {}
    /\ "search_similar" \in {calls[i] : i \in 1..Len(calls)}
    /\ vector_results = <<>>
    /\ GeneratorReportedQuota
    /\ result[1].source_type = "out_of_scope_quota_exceeded"

\* the upstream embedding call failed or answered with an empty vector
EmbeddingFailed ==
    /\ embed_upstream # <<>>
    /\ LET last == embed_upstream[Len(embed_upstream)]
       IN  last.kind = "raise" \/ last.vec = <<>>

\* C9: when the query embedding fails or is empty the index is not
\* searched, the generator is called without context, references are empty,
\* and the response is the fixed out-of-scope message as
\* embedding_failed_quota_exceeded if the generator reports quota
\* exhaustion, the generator's text as fallback otherwise.
C9_EmbeddingFailedPath ==
    (Returned /\ raised = {} /\ EmbeddingFailed) =>
        /\ calls = <<"embed_text", "generate_content">>
        /\ GeneratorReturned
        /\ result[1].references = <<>>
        /\ IF GeneratorReportedQuota
           THEN /\ result[1].response = _build_out_of_scope_quota_message
                /\ result[1].source_type = "embedding_failed_quota_exceeded"
           ELSE /\ result[1].response = GeneratedText
                /\ GenerationSucceeded =>
                      result[1].confidence_score
                         = _calculate_confidence(result[1].response, FALSE)
                /\ result[1].source_type = "fallback"

C9_Witness ==
    /\ Returned /\ raised = {}
    /\ embed_upstream = << UpRaise(MsgTimeout) >>
    /\ GeneratorReportedQuota
    /\ result[1].source_type = "embedding_failed_quota_exceeded"

QuotaMessages == {MsgQuota, Msg429, MsgResourceExhausted}

\* C10: when the upstream call of generate_content or chat_with_context
\* fails with a message containing quota, 429 or resourceexhausted in any
\* letter case, that call is the only upstream attempt and the result
\* returned has quota_exceeded = true.
C10_QuotaFailsFast ==
    (upstream # <<>> /\ upstream[1].kind = "raise" /\ upstream[1].msg \in QuotaMessages) =>
        /\ Len(upstream) = 1
        /\ pc # "generate"
        /\ attempt = 0
        /\ GeneratorReportedQuota

C10_Witness ==
    /\ fn = "chat_with_context"
    /\ upstream = << UpRaise(MsgResourceExhausted) >>
    /\ GeneratorReportedQuota
    /\ slept = 0


\* an upstream failure whose message has no quota and no safety marker
Transient(up) ==
    /\ up.kind = "raise"
    /\ ~HasQuotaKeyword(Lower(up.msg))
    /\ ~HasSafetyKeyword(Lower(up.msg))

\* the embedding call of the query is over
EmbeddingCallOver == pc \notin {"idle", "embed"}

\* C11 (as claimed): once a call of generate_content, chat_with_context or
\* embed_content whose first upstream attempt failed with a transient
\* error is over, the upstream call has been attempted again, and no more
\* than max_retries times in total.
C11_TransientErrorIsRetried ==
    /\ (fn_outcome # <<>> /\ upstream # <<>> /\ Transient(upstream[1])) =>
          (Len(upstream) > 1 /\ Len(upstream) <= max_retries)
    /\ (EmbeddingCallOver /\ embed_upstream # <<>> /\ Transient(embed_upstream[1])) =>
          (Len(embed_upstream) > 1 /\ Len(embed_upstream) <= max_retries)

\* the upstream answer is a safety block: no text, or an error whose
\* message mentions safety or blocked
SafetyBlock(up) ==
    \/ up.kind = "text" /\ up.text = <<>>
    \/ up.kind = "raise" /\ HasSafetyKeyword(Lower(up.msg))

\* C12 (as claimed): once a call of generate_content or chat_with_context
\* whose upstream answer was a safety block is over, it has returned a
\* result with blocked = true and the fixed apology of the method, after
\* exactly one upstream attempt.
C12_SafetyBlockGivesBlockedResult ==
    (fn_outcome # <<>> /\ upstream # <<>> /\ SafetyBlock(upstream[1])) =>
        /\ Len(upstream) = 1
        /\ fn_outcome[1].kind = "return"
        /\ Get(fn_outcome[1].val, "blocked", FALSE)
        /\ Get(fn_outcome[1].val, "text", <<>>) \o Get(fn_outcome[1].val, "response", <<>>)
              = (IF fn = "chat_with_context" THEN ChatSafetyApology ELSE GenSafetyApology)


\* --------------------------------------- _calculate_confidence alone
MaxWords == 101     \* most filler words of a scored text

\* n words separated by single spaces
Words(n) == [i \in 1..(2 * n - 1) |-> IF i % 2 = 1 THEN "w" ELSE " "]

\* Phrases a scored text may open with: none, each uncertainty phrase as
\* listed, one in capitals, and one that is not in the list.
OpeningPhrases ==
    {<<>>} \cup uncertainty_phrases
    \cup { <<"I"," ","C","A","N","N","O","T">>, <<"p","e","r","h","a","p","s">> }

ConfidenceTexts ==
    { pad \o phrase \o (IF phrase # <<>> /\ n > 0 THEN <<" ">> ELSE <<>>) \o Words(n) :
        pad \in {<<>>, <<" ">>}, phrase \in OpeningPhrases, n \in 0..MaxWords }

\* gemini_client.py 171, 269: one call of _calculate_confidence
CalculateConfidence(t, c) ==
    /\ confidence = <<>>
    /\ text' = t
    /\ has_context' = c
    /\ confidence' = << _calculate_confidence(t, c) >>
    /\ UNCHANGED <<rag_vars, index_vars, chunker_vars, indexing_vars>>

NextConfidence == \E t \in ConfidenceTexts, c \in BOOLEAN : CalculateConfidence(t, c)

SpecConfidence == Init /\ [][NextConfidence]_vars

\* C13: the score of the empty text is 0.0; the score of every other text
\* lies in [0.1, 1.0], whatever its word-count band, the context flag and
\* the uncertainty phrase it holds.
C13_ConfidenceRange ==
    confidence # <<>> =>
        IF text = <<>> THEN confidence[1] = 0
        ELSE confidence[1] >= 10 /\ confidence[1] <= 100

\* a short text with an uncertainty phrase and no context is scored at the floor
C13_Witness ==
    /\ confidence = <<10>>
    /\ text # <<>>
    /\ ~has_context
    /\ \E phrase \in uncertainty_phrases : Contains(Lower(text), phrase)


\* the upstream embedding call failed: it raised or answered without a vector
EmbedUpstreamFailed(up) == up.kind = "raise" \/ (up.kind = "vec" /\ up.vec = <<>>)

\* C14: once embed_text has returned for a query that is empty or made of
\* whitespace only, the upstream embedding model has not been called and
\* the orchestrator holds None; it also holds None whenever the upstream
\* call failed, and in both cases no vector search is made.
C14_BlankTextIsNoEmbedding ==
    (EmbeddingCallOver /\ "embedding" \notin raised) =>
        /\ Strip(query) = <<>> =>
              /\ embed_upstream = <<>>
              /\ query_embedding = EmbNone
              /\ "search_similar" \notin Range(calls)
        /\ (embed_upstream # <<>> /\ EmbedUpstreamFailed(embed_upstream[Len(embed_upstream)])) =>
              /\ query_embedding = EmbNone
              /\ "search_similar" \notin Range(calls)

\* a query of whitespace only was answered without an embedding
C14_Witness ==
    /\ Returned /\ raised = {}
    /\ query # <<>> /\ Strip(query) = <<>>
    /\ embed_upstream = <<>>
    /\ query_embedding = EmbNone
    /\ result[1].source_type = "fallback"


\* ------------------------------------------------ VectorDB operations
IdSpace == 4        \* ids _create_simple_id can give (10^10 in the source)
MaxAdds == 3        \* add_embeddings calls that may succeed
MaxBatch == 2       \* longest batch given to add_batch_embeddings

MaxChapterIdLen == 50
MaxSectionIdLen == 100
ScrollLimit == 1000

\* Chapter ids callers pass: two short ones and one of 51 characters.
ChapterIdArgs == { <<"c","1">>, <<"c","2">>, Lit("c", MaxChapterIdLen + 1) }
SectionContent == Lit("x", 5)

\* f"{chapter.id}_{section_id}" (embeddings.py 50)
SectionIdOf(chapter) == chapter \o <<"_">> \o Lit("section_1", 9)

\* metadatas of create_chapter_embeddings (embeddings.py 60)
CreatedAt == [created_at |-> "isoformat"]

\* int(time.time() * 1000000) % 10000000000, the modulus scaled to IdSpace
_create_simple_id(t) == t % IdSpace

\* vector_db.py 158-191: the payload written for a point
PointPayload(chapter, section, contents, metadata) ==
    LET enhanced_metadata ==
            [chapter_id |-> Take(chapter, MaxChapterIdLen),
             section_id |-> Take(section, MaxSectionIdLen),
             content |-> Take(contents, MaxStoredContent),
             chapter_number |-> Get(metadata, "chapter_number", <<>>),
             chapter_title |-> Take(Get(metadata, "chapter_title", <<>>), 200),
             module |-> Take(Get(metadata, "module", <<>>), 100),
             section_title |-> Take(Get(metadata, "section_title", <<>>), 200)]
    IN  [k \in DOMAIN enhanced_metadata \cup DOMAIN metadata |->
            IF k \in DOMAIN metadata THEN metadata[k] ELSE enhanced_metadata[k]]

\* client.upsert: the point with this id is written, replacing the point
\* that has the id already.  added_as records the chapter id the caller
\* passed; it is not part of the payload.
Upsert(idx, point_id, payload, passed) ==
    [id \in DOMAIN idx \cup {point_id} |->
        IF id = point_id THEN [payload |-> payload, added_as |-> passed] ELSE idx[id]]

\* mutant: add_embeddings connects when it finds no client and the store
\* answers
Mutant_add_embeddings(cl, idx, t, chapter, section, contents, metadata, store_ok) ==
    IF ~store_ok THEN [ret |-> FALSE, index |-> idx]
    ELSE [ret |-> TRUE,
          index |-> Upsert(idx, _create_simple_id(t),
                           PointPayload(chapter, section, contents, metadata),
                           chapter)]

\* VectorDB.add_embeddings at time t; store_ok tells whether the upsert
\* call succeeds.  Gives the return value and the collection afterwards.
add_embeddings(cl, idx, t, chapter, section, contents, metadata, store_ok) ==
    IF cl = "None" THEN [ret |-> FALSE, index |-> idx]
    ELSE IF ~store_ok THEN [ret |-> FALSE, index |-> idx]
    ELSE [ret |-> TRUE,
          index |-> Upsert(idx, _create_simple_id(t),
                           PointPayload(chapter, section, contents, metadata),
                           chapter)]

\* VectorDB.add_batch_embeddings: the loop over the zipped arguments, one
\* add_embeddings call per item, each taking a microsecond at least.
RECURSIVE BatchLoop(_, _, _, _, _)
BatchLoop(cl, idx, t, items, successful) ==
    IF items = <<>> THEN [ret |-> successful, index |-> idx, now |-> t]
    ELSE LET item == items[1]
             r == add_embeddings(cl, idx, t, item.chapter, SectionIdOf(item.chapter),
                                 SectionContent, CreatedAt, item.store_ok)
         IN  BatchLoop(cl, r.index, (t + 1) % IdSpace, Tail(items),
                       IF r.ret THEN successful + 1 ELSE successful)

add_batch_embeddings(cl, idx, t, items) ==
    IF cl = "None" THEN [ret |-> 0, index |-> idx, now |-> t]
    ELSE BatchLoop(cl, idx, t, items, 0)

\* VectorDB.search_similar on the collection idx: answer is the list of
\* point ids query_points gives, best first.
search_similar_in(cl, idx, answer, store_ok) ==
    IF cl = "None" THEN <<>>
    ELSE IF ~store_ok THEN <<>>
    ELSE [i \in 1..Len(answer) |->
            LET payload == idx[answer[i]].payload
            IN  [chapter_id |-> Get(payload, "chapter_id", <<>>),
                 chapter_number |-> Get(payload, "chapter_number", <<>>),
                 chapter_title |-> Get(payload, "chapter_title", <<>>),
                 module |-> Get(payload, "module", <<>>),
                 section_id |-> Get(payload, "section_id", <<>>),
                 section_title |-> Get(payload, "section_title", <<>>),
                 content |-> Get(payload, "content", <<>>),
                 similarity_score |-> ScoreAt(i)]]

\* The points a scroll filtered on chapter_id may give: those whose stored
\* chapter_id equals the argument, ScrollLimit of them at most.
Matching(idx, chapter) ==
    {id \in DOMAIN idx : Get(idx[id].payload, "chapter_id", <<>>) = chapter}
Scrolled(idx, chapter) ==
    {ids \in SUBSET Matching(idx, chapter) :
        Cardinality(ids) = Min(ScrollLimit, Cardinality(Matching(idx, chapter)))}

\* VectorDB.delete_by_chapter_id: point_ids are the points the scroll gave
delete_by_chapter_id(cl, idx, point_ids, scroll_ok, delete_ok) ==
    IF cl = "None" THEN [ret |-> 0, index |-> idx]
    ELSE IF ~scroll_ok THEN [ret |-> 0, index |-> idx]
    ELSE IF point_ids = {} THEN [ret |-> 0, index |-> idx]
    ELSE IF ~delete_ok THEN [ret |-> 0, index |-> idx]
    ELSE [ret |-> Cardinality(point_ids),
          index |-> [id \in DOMAIN idx \ point_ids |-> idx[id]]]

\* mutant: a failing store call is reported as -1
Mutant_get_vector_count(cl, idx, store_ok) ==
    IF cl = "None" THEN 0
    ELSE IF ~store_ok THEN 0 - 1
    ELSE Cardinality(DOMAIN idx)

\* VectorDB.get_vector_count
get_vector_count(cl, idx, store_ok) ==
    IF cl = "None" THEN 0
    ELSE IF ~store_ok THEN 0
    ELSE Cardinality(DOMAIN idx)

Constructed == op.name # "none"

\* vector_db.py 32-62: the constructor keeps a client only if the
\* connection test succeeds
Connect(ok) ==
    /\ ~Constructed
    /\ client' = IF ok THEN "connected" ELSE "None"
    /\ op' = [name |-> "__init__"]
    /\ UNCHANGED <<index, now, inserted, removed>>
    /\ UNCHANGED <<rag_vars, confidence_vars, chunker_vars, indexing_vars>>

AddEmbeddings(c, store_ok) ==
    /\ Constructed
    /\ inserted < MaxAdds
    /\ LET r == add_embeddings(client, index, now, c, SectionIdOf(c), SectionContent,
                               CreatedAt, store_ok)
       IN  /\ index' = r.index
           /\ inserted' = IF r.ret THEN inserted + 1 ELSE inserted
           /\ op' = [name |-> "add_embeddings", ret |-> r.ret,
                     store_up |-> store_ok,
                     unreachable |-> (client = "None" \/ ~store_ok)]
    /\ now' = (now + 1) % IdSpace
    /\ UNCHANGED <<client, removed>>
    /\ UNCHANGED <<rag_vars, confidence_vars, chunker_vars, indexing_vars>>

AddBatchEmbeddings(items) ==
    /\ Constructed
    /\ inserted + Len(items) <= MaxAdds
    /\ LET r == add_batch_embeddings(client, index, now, items)
       IN  /\ index' = r.index
           /\ now' = r.now
           /\ inserted' = inserted + r.ret
           /\ op' = [name |-> "add_batch_embeddings", ret |-> r.ret,
                     unreachable |-> (client = "None"
                                      \/ \A i \in 1..Len(items) : ~items[i].store_ok)]
    /\ UNCHANGED <<client, removed>>
    /\ UNCHANGED <<rag_vars, confidence_vars, chunker_vars, indexing_vars>>

SearchSimilar(answer, store_ok) ==
    /\ Constructed
    /\ op' = [name |-> "search_similar",
              ret |-> search_similar_in(client, index, answer, store_ok),
              store_up |-> store_ok,
                     unreachable |-> (client = "None" \/ ~store_ok)]
    /\ UNCHANGED <<client, index, now, inserted, removed>>
    /\ UNCHANGED <<rag_vars, confidence_vars, chunker_vars, indexing_vars>>

DeleteByChapterId(c, scroll_ok, delete_ok) ==
    /\ Constructed
    /\ \E point_ids \in Scrolled(index, c) :
          LET r == delete_by_chapter_id(client, index, point_ids, scroll_ok, delete_ok)
              gone == Cardinality(DOMAIN index) - Cardinality(DOMAIN r.index)
          IN  /\ index' = r.index
              /\ removed' = removed + gone
              /\ op' = [name |-> "delete_by_chapter_id", ret |-> r.ret, chapter |-> c,
                        gone |-> gone,
                        unreachable |-> (client = "None" \/ ~scroll_ok
                                         \/ (point_ids # {} /\ ~delete_ok))]
    /\ UNCHANGED <<client, now, inserted>>
    /\ UNCHANGED <<rag_vars, confidence_vars, chunker_vars, indexing_vars>>

GetVectorCount(store_ok) ==
    /\ Constructed
    /\ op' = [name |-> "get_vector_count",
              ret |-> get_vector_count(client, index, store_ok),
              store_up |-> store_ok,
                     unreachable |-> (client = "None" \/ ~store_ok)]
    /\ UNCHANGED <<client, index, now, inserted, removed>>
    /\ UNCHANGED <<rag_vars, confidence_vars, chunker_vars, indexing_vars>>

\* Time passes between two calls.
Elapse(d) ==
    /\ Constructed
    /\ now' = (now + d) % IdSpace
    /\ UNCHANGED <<client, index, op, inserted, removed>>
    /\ UNCHANGED <<rag_vars, confidence_vars, chunker_vars, indexing_vars>>

BatchItems ==
    UNION {[1..n -> [chapter : ChapterIdArgs, store_ok : BOOLEAN]] : n \in 0..MaxBatch}

\* query_points gives up to two of the points of the collection
IndexAnswers(idx) ==
    {<<>>} \cup {<<a>> : a \in DOMAIN idx}
    \cup {ab \in (DOMAIN idx) \X (DOMAIN idx) : ab[1] # ab[2]}

\* chapter ids to delete: as passed to add_embeddings, or as stored
DeleteArgs == ChapterIdArgs \cup {Take(c, MaxChapterIdLen) : c \in ChapterIdArgs}

NextIndex ==
    \/ \E ok \in BOOLEAN : Connect(ok)
    \/ \E c \in ChapterIdArgs, store_ok \in BOOLEAN : AddEmbeddings(c, store_ok)
    \/ \E items \in BatchItems : AddBatchEmbeddings(items)
    \/ \E answer \in IndexAnswers(index), store_ok \in BOOLEAN : SearchSimilar(answer, store_ok)
    \/ \E c \in DeleteArgs, scroll_ok \in BOOLEAN, delete_ok \in BOOLEAN :
          DeleteByChapterId(c, scroll_ok, delete_ok)
    \/ \E store_ok \in BOOLEAN : GetVectorCount(store_ok)
    \/ \E d \in 1..(IdSpace - 1) : Elapse(d)

SpecIndex == Init /\ [][NextIndex]_vars

\* C15: a VectorDB call made without a client, or whose store call failed,
\* has returned its empty value: [] for search_similar, False for
\* add_embeddings, 0 for add_batch_embeddings, delete_by_chapter_id and
\* get_vector_count.
C15_UnreachableStoreGivesEmpty ==
    (Constructed /\ op.name # "__init__" /\ op.unreachable) =>
        CASE op.name = "search_similar" -> op.ret = <<>>
          [] op.name = "add_embeddings" -> op.ret = FALSE
          [] OTHER -> op.ret = 0

\* the count was asked of a connected store whose call failed
C15_Witness ==
    /\ op.name = "get_vector_count"
    /\ client = "connected"
    /\ op.unreachable
    /\ index # << >>
    /\ op.ret = 0

\* C16 (as claimed): the collection holds one point for every add_embeddings
\* call that returned True, less the points delete_by_chapter_id removed.
C16_EachAddCreatesAnEntry ==
    Cardinality(DOMAIN index) = inserted - removed

\* C17 (as claimed): once delete_by_chapter_id(c) has returned on a
\* reachable store, no point added with chapter id c is in the collection
\* and the value returned is the number of points removed.
C17_DeleteRemovesChapter ==
    (op.name = "delete_by_chapter_id" /\ ~op.unreachable) =>
        /\ \A id \in DOMAIN index : index[id].added_as # op.chapter
        /\ op.ret = op.gone


\* C28: a VectorDB constructed while the store was unreachable keeps no
\* client for good: no call sets one, so every later search returns [],
\* every add False (0 for a batch), the count 0, and the collection gets
\* nothing from this process, also when the store answers again.
C28_UnsetClientNeverReconnects ==
    /\ [][Constructed /\ client = "None" => client' = "None"]_vars
    /\ [](Constructed /\ client = "None" =>
            /\ index = << >>
            /\ op.name = "search_similar" => op.ret = <<>>
            /\ op.name = "add_embeddings" => op.ret = FALSE
            /\ op.name = "add_batch_embeddings" => op.ret = 0
            /\ op.name = "get_vector_count" => op.ret = 0)

\* C28 witness: without a client, an add made while the store answered
\* returned False.
C28_Witness ==
    /\ client = "None"
    /\ op.name = "add_embeddings"
    /\ op.store_up
    /\ op.ret = FALSE


\* ------------------------- EmbeddingService._split_content_into_sections
MaxContentLen == 7      \* longest content given to the chunker
MaxMaxLength == 6       \* largest max_length given to the chunker

ParagraphBreak == <<"\n", "\n">>
SentenceBreak == <<".", " ">>

\* where sep occurs in s
Occurrences(s, sep) ==
    {i \in 1..(Len(s) - Len(sep) + 1) : SubSeq(s, i, i + Len(sep) - 1) = sep}

\* s.split(sep): cut at the occurrences of sep, leftmost first
RECURSIVE Split(_, _)
Split(s, sep) ==
    IF Occurrences(s, sep) = {} THEN << s >>
    ELSE LET i == CHOOSE k \in Occurrences(s, sep) : \A j \in Occurrences(s, sep) : k <= j
         IN  << SubSeq(s, 1, i - 1) >> \o Split(SubSeq(s, i + Len(sep), Len(s)), sep)

\* embeddings.py 178-196: pack paragraphs into sections
RECURSIVE PackParagraphs(_, _, _, _)
PackParagraphs(paragraphs, current_section, sections, max_len) ==
    IF paragraphs = <<>>
    THEN IF current_section # <<>> THEN Append(sections, Strip(current_section))
         ELSE sections
    ELSE LET paragraph == paragraphs[1]
         IN  IF Len(current_section) + Len(paragraph) > max_len /\ current_section # <<>>
             THEN PackParagraphs(Tail(paragraphs), paragraph,
                                 Append(sections, Strip(current_section)), max_len)
             ELSE PackParagraphs(Tail(paragraphs),
                                 IF current_section # <<>>
                                 THEN current_section \o ParagraphBreak \o paragraph
                                 ELSE paragraph,
                                 sections, max_len)

\* mutant: sentences are packed without looking at max_length
RECURSIVE Mutant_PackSentences(_, _, _, _)
Mutant_PackSentences(sentences, current_chunk, chunks, max_len) ==
    IF sentences = <<>>
    THEN IF current_chunk # <<>> THEN Append(chunks, Strip(current_chunk)) ELSE chunks
    ELSE Mutant_PackSentences(Tail(sentences), current_chunk \o sentences[1] \o SentenceBreak,
                              chunks, max_len)

\* embeddings.py 205-218: pack the sentences of a long section into chunks
RECURSIVE PackSentences(_, _, _, _)
PackSentences(sentences, current_chunk, chunks, max_len) ==
    IF sentences = <<>>
    THEN IF current_chunk # <<>> THEN Append(chunks, Strip(current_chunk)) ELSE chunks
    ELSE LET sentence_with_dot == sentences[1] \o SentenceBreak
         IN  IF Len(current_chunk) + Len(sentence_with_dot) <= max_len
             THEN PackSentences(Tail(sentences), current_chunk \o sentence_with_dot,
                                chunks, max_len)
             ELSE PackSentences(Tail(sentences), sentence_with_dot,
                                IF current_chunk # <<>>
                                THEN Append(chunks, Strip(current_chunk)) ELSE chunks,
                                max_len)

\* embeddings.py 199-218: sections that fit are kept, the others re-split
RECURSIVE SplitLongSections(_, _, _)
SplitLongSections(sections, chunks, max_len) ==
    IF sections = <<>> THEN chunks
    ELSE LET section == sections[1]
         IN  SplitLongSections(Tail(sections),
                               IF Len(section) <= max_len THEN Append(chunks, section)
                               ELSE PackSentences(Split(section, SentenceBreak), <<>>,
                                                  chunks, max_len),
                               max_len)

_split_content_into_sections(c, max_len) ==
    SplitLongSections(PackParagraphs(Split(c, ParagraphBreak), <<>>, <<>>, max_len),
                      <<>>, max_len)

ContentAlphabet == {"a", ".", " ", "\n"}
Contents == UNION {[1..n -> ContentAlphabet] : n \in 0..MaxContentLen}

\* A chapter content and a max_length are given to the chunker.
InitChunker ==
    /\ RagIdle /\ ConfidenceIdle /\ IndexIdle /\ IndexingIdle
    /\ content \in Contents
    /\ max_length \in 1..MaxMaxLength
    /\ final_sections = <<>>

\* embeddings.py 36: one call of _split_content_into_sections
SplitContent ==
    /\ final_sections = <<>>
    /\ final_sections' = << _split_content_into_sections(content, max_length) >>
    /\ UNCHANGED <<content, max_length>>
    /\ UNCHANGED <<rag_vars, confidence_vars, index_vars, indexing_vars>>

NextChunker == SplitContent

SpecChunker == InitChunker /\ [][NextChunker]_vars

\* the chunker has returned
Chunked == final_sections # <<>>

\* C18: every chunk returned is at most max_length long, unless it is a
\* single sentence, that is, it holds no ". " boundary.
C18_ChunkLengthBounded ==
    Chunked =>
        \A i \in 1..Len(final_sections[1]) :
            \/ Len(final_sections[1][i]) <= max_length
            \/ ~Contains(final_sections[1][i], SentenceBreak)

\* a content longer than max_length was re-split by sentences into chunks
\* that fit, one of them holding two sentences
C18_Witness ==
    /\ Chunked
    /\ Len(content) > max_length
    /\ Len(final_sections[1]) >= 2
    /\ \E i \in 1..Len(final_sections[1]) : Contains(final_sections[1][i], SentenceBreak)
    /\ \A i \in 1..Len(final_sections[1]) : Len(final_sections[1][i]) <= max_length

\* the characters of s that are not whitespace, in order
NoSpace(s) == SelectSeq(s, LAMBDA ch : ~IsSpace(ch))

\* "".join(chunks)
RECURSIVE Concat(_)
Concat(chunks) == IF chunks = <<>> THEN <<>> ELSE chunks[1] \o Concat(Tail(chunks))

\* C19 (as claimed): the chunks, concatenated in order, hold the
\* characters of the content, whitespace aside: none dropped, none
\* duplicated, none reordered, none added.
C19_ChunksReconstructContent ==
    Chunked => NoSpace(Concat(final_sections[1])) = NoSpace(content)

\* C20 (as claimed): no chunk returned is empty, and the empty content
\* gives the empty list.
C20_NoEmptyChunk ==
    Chunked =>
        /\ \A i \in 1..Len(final_sections[1]) : final_sections[1][i] # <<>>
        /\ content = <<>> => final_sections[1] = <<>>


\* ------------------------------------ scripts/index_markdown.py chunk_text
MaxTextLen == 5         \* longest text given to chunk_text
MaxMaxChars == 3        \* largest max_chars given to chunk_text
MaxOverlap == 4         \* largest overlap given to chunk_text

\* test_chunk_fix.py 13-22: the start of the next chunk in the version
\* that steps back by overlap
Mutant_range_next(i, text_len, step, ov) == Max(Min(i + step, text_len) - ov, 0)

\* the next value of i in "for i in range(0, len(text), max_chars)";
\* neither the length nor the overlap takes part
range_next(i, text_len, step, ov) == i + step

\* text[i:j] for 0 <= i
Slice(s, i, j) == SubSeq(s, i + 1, Min(j, Len(s)))

TextAlphabet == {"a", "b"}
Texts == UNION {[1..n -> TextAlphabet] : n \in 0..MaxTextLen}

InitChunkText ==
    /\ ServiceIdle /\ TopicsIdle /\ RetryIdle /\ JobIdle /\ ChapterIdle
    /\ md_text \in Texts
    /\ max_chars \in 1..MaxMaxChars
    /\ overlap \in 0..MaxOverlap
    /\ chunk_start = 0
    /\ yielded = <<>>
    /\ chunk_pc = "loop"

\* index_markdown.py 26-28: one iteration of the loop, yielding a chunk
ChunkTextYield ==
    /\ chunk_pc = "loop"
    /\ chunk_start < Len(md_text)
    /\ yielded' = Append(yielded, Slice(md_text, chunk_start, chunk_start + max_chars))
    /\ chunk_start' = range_next(chunk_start, Len(md_text), max_chars, overlap)
    /\ UNCHANGED <<md_text, max_chars, overlap, chunk_pc>>
    /\ UNCHANGED <<rag_vars, confidence_vars, index_vars, chunker_vars, topics_vars, retry_vars, job_vars, chapter_vars>>

\* index_markdown.py 26: the range is exhausted, the generator returns
ChunkTextReturn ==
    /\ chunk_pc = "loop"
    /\ chunk_start >= Len(md_text)
    /\ chunk_pc' = "done"
    /\ UNCHANGED <<md_text, max_chars, overlap, chunk_start, yielded>>
    /\ UNCHANGED <<rag_vars, confidence_vars, index_vars, chunker_vars, topics_vars, retry_vars, job_vars, chapter_vars>>

NextChunkText == ChunkTextYield \/ ChunkTextReturn

\* the generator is driven by a for loop that asks for the next chunk
\* until the generator returns
SpecChunkText == InitChunkText /\ [][NextChunkText]_vars /\ WF_vars(NextChunkText)

\* ceil(a / b) for b > 0
CeilDiv(a, b) == (a + b - 1) \div b

\* the chunks are non-empty, at most max_chars long, and concatenate to
\* the text
ChunksPartitionText ==
    /\ Len(yielded) = CeilDiv(Len(md_text), max_chars)
    /\ \A k \in 1..Len(yielded) : yielded[k] # <<>> /\ Len(yielded[k]) <= max_chars
    /\ Concat(yielded) = md_text

\* C21: chunk_text returns for every text, max_chars > 0 and overlap; it
\* never yields more than ceil(len(text) / max_chars) yielded, and once it
\* has returned it has yielded exactly that many, each non-empty and at
\* most max_chars long, concatenating in order to the text.
C21_ChunkTextTerminatesAndPartitions ==
    /\ [](Len(yielded) <= CeilDiv(Len(md_text), max_chars))
    /\ [](chunk_pc = "done" => ChunksPartitionText)
    /\ <>(chunk_pc = "done")

\* C21 witness: chunk_text has returned several yielded, the last a short
\* one, for an overlap at least as large as max_chars.
C21_Witness ==
    /\ chunk_pc = "done"
    /\ Len(yielded) >= 2
    /\ Len(yielded[Len(yielded)]) < max_chars
    /\ overlap >= max_chars


\* ------------------------------------------ the interaction event (C22)
\* the chat-interaction events emitted so far
ChatInteractions == SelectSeq(events, LAMBDA e : e.event = "chat_interaction")

\* C22 (as claimed): when get_response has returned, on any path, it has
\* emitted exactly one chat-interaction event, whose confidence,
\* source_type and latency are those of the ChatResponse returned.
C22_OneInteractionEventMatchingResponse ==
    Returned =>
        /\ Len(ChatInteractions) = 1
        /\ ChatInteractions[1].confidence_score = result[1].confidence_score
        /\ ChatInteractions[1].source_type = result[1].source_type
        /\ ChatInteractions[1].execution_time = result[1].query_time_ms


\* ------------------------------- independence of the caller (C23)
\* The answer get_response gives an anonymous caller who names no chapter,
\* from what the collaborators answered in this query: the embedding, the
\* points the store held for the query, the generator's response.
AnonymousAnswer ==
    LET t == clock - start_time
    IN  IF NoEmbedding(query_embedding)
        THEN EmbeddingFailedAnswer(None, query, None, gemini_response[1], t)
        ELSE LET hits == search_similar(query_points(searched[1].store,
                                                       SearchFilters(None)))
             IN  IF hits # <<>>
                 THEN HitsAnswer(None, query, None, hits, gemini_response[1], t)
                 ELSE NoHitsAnswer(None, query, None, gemini_response[1], t)

SameAnswer(a, b) ==
    /\ a.response = b.response
    /\ a.confidence_score = b.confidence_score
    /\ a.source_type = b.source_type
    /\ a.references = b.references

\* C23: the response text, confidence_score, source_type and references
\* get_response returns are those it returns to an anonymous caller naming
\* no chapter for the same query and the same collaborator behaviour; the
\* search is made without filters.
C23_AnswerIndependentOfCaller ==
    Returned =>
        /\ searched # <<>> => searched[1].filters = <<>>
        /\ IF raised \subseteq {"generation"}
           THEN SameAnswer(result[1], AnonymousAnswer.chat)
           ELSE SameAnswer(result[1], ErrorResponse(0))

\* C23 witness: a named user asking within chapter ch1 was answered from
\* hits of which only some belong to that chapter.
C23_Witness ==
    /\ Returned /\ raised = {}
    /\ user_id = "u1" /\ chapter_id = "ch1"
    /\ vector_results # <<>>
    /\ \E i, j \in 1..Len(vector_results) :
          /\ vector_results[i].chapter_id = ChapterIdChars(chapter_id)
          /\ vector_results[j].chapter_id # ChapterIdChars(chapter_id)


\* ------------------------------------------- VectorDB._extract_topics
MaxHashSeed == 2        \* hash seeds a process may start with: 0..MaxHashSeed
MaxExtractions == 2     \* _extract_topics calls made on the passage
MaxKeywordsInPassage == 12  \* most keywords a passage names

\* vector_db.py 96-102
keywords ==
    << <<"R","O","S","2">>,
       <<"R","O","S"," ","2">>,
       <<"G","a","z","e","b","o">>,
       <<"U","n","i","t","y">>,
       <<"N","V","I","D","I","A"," ","I","s","a","a","c">>,
       <<"I","s","a","a","c"," ","S","i","m">>,
       <<"D","D","S">>,
       <<"n","o","d","e","s">>,
       <<"t","o","p","i","c","s">>,
       <<"s","e","r","v","i","c","e","s">>,
       <<"a","c","t","i","o","n","s">>,
       <<"U","R","D","F">>,
       <<"S","D","F">>,
       <<"s","i","m","u","l","a","t","i","o","n">>,
       <<"s","e","n","s","o","r">>,
       <<"a","c","t","u","a","t","o","r">>,
       <<"c","o","n","t","r","o","l","l","e","r">>,
       <<"n","a","v","i","g","a","t","i","o","n">>,
       <<"S","L","A","M">>,
       <<"p","l","a","n","n","i","n","g">>,
       <<"p","e","r","c","e","p","t","i","o","n">>,
       <<"m","a","n","i","p","u","l","a","t","i","o","n">>,
       <<"V","L","A">>,
       <<"v","i","s","i","o","n">>,
       <<"l","a","n","g","u","a","g","e">>,
       <<"t","r","a","n","s","f","o","r","m","e","r">>,
       <<"n","e","u","r","a","l"," ","n","e","t","w","o","r","k">>,
       <<"t","r","a","i","n","i","n","g">>,
       <<"d","e","p","l","o","y","m","e","n","t">> >>

MaxTopics == 10

\* vector_db.py 104-107: the keywords found in the content, by position in
\* keywords
FoundKeywords(c) ==
    {k \in 1..Len(keywords) : Contains(Lower(c), Lower(keywords[k]))}

\* The order in which a set of strings is iterated: fixed within a
\* process, it follows the string hashes, which are salted with the seed
\* the process started with.  Each seed gives one order of the keywords.
SetOrder(seed) == [i \in 1..Len(keywords) |-> ((i + seed - 1) % Len(keywords)) + 1]

\* vector_db.py 109: list(set(topics))[:10] in a process with that seed
_extract_topics(c, seed) ==
    LET in_set_order == SelectSeq(SetOrder(seed), LAMBDA k : k \in FoundKeywords(c))
        kept == Take(in_set_order, MaxTopics)
    IN  [i \in 1..Len(kept) |-> keywords[kept[i]]]

\* passages naming the first n keywords
PassageNaming(n) == Join(<<" ">>, SubSeq(keywords, 1, n))
Passages == {PassageNaming(n) : n \in 0..MaxKeywordsInPassage}
HashSeeds == 0..MaxHashSeed

InitTopics ==
    /\ ServiceIdle /\ ChunkTextIdle /\ RetryIdle /\ JobIdle /\ ChapterIdle
    /\ passage \in Passages
    /\ hashseed \in HashSeeds
    /\ extracted = <<>>

\* vector_db.py 176: add_embeddings computes the topics of a content
ExtractTopics ==
    /\ Len(extracted) < MaxExtractions
    /\ extracted' = Append(extracted, _extract_topics(passage, hashseed))
    /\ UNCHANGED <<passage, hashseed>>
    /\ UNCHANGED <<rag_vars, confidence_vars, index_vars, chunker_vars, chunk_text_vars, retry_vars, job_vars, chapter_vars>>

\* The process ends and another one starts (the indexing job is run
\* again, the server is restarted): another hash seed.
RestartProcess(seed) ==
    /\ seed # hashseed
    /\ hashseed' = seed
    /\ UNCHANGED <<passage, extracted>>
    /\ UNCHANGED <<rag_vars, confidence_vars, index_vars, chunker_vars, chunk_text_vars, retry_vars, job_vars, chapter_vars>>

NextTopics == ExtractTopics \/ \E seed \in HashSeeds : RestartProcess(seed)

SpecTopics == InitTopics /\ [][NextTopics]_vars

\* C24 (as claimed): every call of _extract_topics on the same text gives
\* the same set of topics, of at most 10.
C24_TopicsDeterministic ==
    \A i, j \in 1..Len(extracted) :
        /\ Range(extracted[i]) = Range(extracted[j])
        /\ Len(extracted[i]) <= MaxTopics


\* ------------------------------------ order of collaborator calls (C25)
CallsOf(name) == Len(SelectSeq(calls, LAMBDA c : c = name))
GeneratorCalls == CallsOf("generate_content") + CallsOf("chat_with_context")

IsPrefix(s, t) == Len(s) <= Len(t) /\ s = SubSeq(t, 1, Len(s))

\* embed, then search, then generate; or embed, then generate
CallOrders ==
    { <<"embed_text", "generate_content">>,
      <<"embed_text", "search_similar", "generate_content">>,
      <<"embed_text", "search_similar", "chat_with_context">> }

\* the calls made so far are in order, and the search, if made, was made
\* with a non-empty embedding
CallsInOrder ==
    /\ \E order \in CallOrders : IsPrefix(calls, order)
    /\ CallsOf("search_similar") > 0 => ~NoEmbedding(query_embedding)

\* no exception reached the except branch of get_response
NonErrorPath == raised \subseteq {"generation"}

\* C25 (as claimed): the calls are made in the order embed, search,
\* generate; every query calls embed exactly once, search at most once and
\* only with a non-empty embedding, and, unless it ends in the error
\* branch, the generator exactly once, as its last call.
C25_EmbedSearchGenerateOnce ==
    /\ CallsInOrder
    /\ Returned => CallsOf("embed_text") = 1
    /\ Returned /\ NonErrorPath => calls \in CallOrders

\* C25 (amended): as claimed, except that embed is called exactly once
\* only by the queries whose request logging, which precedes it, did not
\* raise; the others call no collaborator at all.
C25_CallOrder ==
    /\ CallsInOrder
    /\ Returned =>
          IF "request_logging" \in raised THEN calls = <<>>
          ELSE CallsOf("embed_text") = 1
    /\ Returned /\ NonErrorPath =>
          /\ calls \in CallOrders
          /\ calls[Len(calls)] = "chat_with_context" <=> vector_results # <<>>

\* C25 witness: a query that embedded, searched and generated, in that
\* order, and returned.
C25_Witness ==
    /\ Returned /\ NonErrorPath
    /\ calls = <<"embed_text", "search_similar", "chat_with_context">>


\* ------------------------------------------- the retry wrapper alone
MaxRetriesArg == 3      \* largest max_retries given to retry_on_error
MaxDelayArg == 2        \* largest delay given to retry_on_error

\* what a call of the wrapped function may do
FuncOutcomes ==
    {Return("value")}
    \cup {Raise(m) : m \in {MsgTimeout, MsgBoom, MsgQuota, Msg429, MsgSafety, MsgBlocked}}

InitRetry ==
    /\ ServiceIdle /\ ChunkTextIdle /\ TopicsIdle /\ JobIdle /\ ChapterIdle
    /\ retries_arg \in 1..MaxRetriesArg
    /\ delay_arg \in 1..MaxDelayArg
    /\ wrapper_attempt = 0
    /\ func_outcomes = <<>>
    /\ sleeps = <<>>
    /\ wrapper_result = <<>>

\* gemini_client.py 47-67: one iteration of the loop: func is called and
\* returns or raises; the wrapper returns, re-raises, or sleeps and loops
CallFunc(outcome) ==
    /\ wrapper_result = <<>>
    /\ wrapper_attempt < retries_arg
    /\ func_outcomes' = Append(func_outcomes, outcome)
    /\ LET r == wrapper(outcome, wrapper_attempt, retries_arg, delay_arg)
       IN  /\ sleeps' = IF r.sleep > 0 THEN Append(sleeps, r.sleep) ELSE sleeps
           /\ IF r.kind = "retry"
              THEN /\ wrapper_attempt' = wrapper_attempt + 1
                   /\ UNCHANGED wrapper_result
              ELSE /\ wrapper_result' = << [kind |-> r.kind,
                                           val |-> IF r.kind = "return" THEN r.val
                                                   ELSE r.msg] >>
                   /\ UNCHANGED wrapper_attempt
    /\ UNCHANGED <<retries_arg, delay_arg>>
    /\ UNCHANGED <<rag_vars, confidence_vars, index_vars, chunker_vars, chunk_text_vars,
                   topics_vars, job_vars, chapter_vars>>

NextRetry == \E outcome \in FuncOutcomes : CallFunc(outcome)

SpecRetry == InitRetry /\ [][NextRetry]_vars

\* a failure the wrapper retries: neither quota nor safety
Retryable(outcome) ==
    /\ outcome.kind = "raise"
    /\ ~HasQuotaKeyword(Lower(outcome.msg))
    /\ ~HasSafetyKeyword(Lower(outcome.msg))

RECURSIVE SumSeq(_)
SumSeq(s) == IF s = <<>> THEN 0 ELSE s[1] + SumSeq(Tail(s))

\* 1 + 2 + ... + n
Triangle(n) == (n * (n + 1)) \div 2

Attempts == Len(func_outcomes)

MaxChunks == 7          \* most chunks chunk_text cuts the file into

BATCH_SIZE == 3

module_id == "module1"
ChapterOfFile == "chapter1"

\* the i-th chunk of the file, i from 0
ChunkOf(i) == <<"chunk", i>>

\* f"{module_id}-{chapter_id}-chunk-{i}"
SectionIdOfChunk(i) == <<module_id, ChapterOfFile, "chunk", i>>

\* what gemini_client.embed_content does for a chunk: a vector, an empty
\* list, an exception
ChunkOutcomes == {Return(EmbeddingVec), Return(<<>>), Raise(MsgBoom)}
Files == UNION {[1..n -> ChunkOutcomes] : n \in 0..MaxChunks}

AttributeError == Lit("AttributeError", 14)

\* vector_db.add_batch_embeddings_fast(...): VectorDB (vector_db.py 31-443)
\* defines add_embeddings and add_batch_embeddings and no
\* add_batch_embeddings_fast, so the attribute lookup raises before
\* anything is handed to the index.
add_batch_embeddings_fast(section_ids) == Raise(AttributeError)

\* mutant: the except branch of the upload leaves the batch as it is
Mutant_AfterUpload(batch, outcome) == IF outcome.kind = "raise" THEN batch ELSE <<>>

\* index_markdown.py 204-207 and 218-221: each batch list after an upload
\* attempt in the chunk loop, cleared in the try block and in the except
\* branch alike
AfterUpload(batch, outcome) == <<>>

InitJob ==
    /\ RagIdle /\ ConfidenceIdle /\ ChunkerIdle
    /\ ChunkTextIdle /\ TopicsIdle /\ RetryIdle /\ ChapterIdle
    /\ client \in {"None", "connected"}
    /\ index = << >> /\ now = 0 /\ op = [name |-> "__init__"]
    /\ inserted = 0 /\ removed = 0
    /\ job_pc = "start"
    /\ file_chunks \in Files
    /\ chunk_i = 0
    /\ batch_chapter_ids = <<>>
    /\ batch_section_ids = <<>>
    /\ batch_contents = <<>>
    /\ batch_embeddings = <<>>
    /\ upload_attempts = <<>>
    /\ total_chunks_processed = 0

JobUnchanged == UNCHANGED <<rag_vars, confidence_vars, index_vars, chunker_vars,
                            chunk_text_vars, topics_vars, retry_vars, chapter_vars,
                            file_chunks>>

\* where the chunk loop goes after chunk i is done with
AfterChunk(i) == IF i + 1 < Len(file_chunks) THEN "embed" ELSE "final"

\* index_markdown.py 66-69 and 140-150: without a client main() returns;
\* with one it reads the file, creates the empty batch lists and enters the
\* chunk loop
StartFile ==
    /\ job_pc = "start"
    /\ job_pc' = IF client = "None" THEN "returned"
                 ELSE IF file_chunks = <<>> THEN "final" ELSE "embed"
    /\ UNCHANGED <<chunk_i, batch_chapter_ids, batch_section_ids, batch_contents,
                   batch_embeddings, upload_attempts, total_chunks_processed>>
    /\ JobUnchanged

\* index_markdown.py 150-173: embed chunk i and, with an embedding, append
\* it to the four batch lists
EmbedChunk ==
    /\ job_pc = "embed"
    /\ LET embedding == embed_text(file_chunks[chunk_i + 1])
       IN  IF embedding # EmbNone
           THEN /\ batch_chapter_ids' = Append(batch_chapter_ids, ChapterOfFile)
                /\ batch_section_ids' = Append(batch_section_ids, SectionIdOfChunk(chunk_i))
                /\ batch_contents' = Append(batch_contents, ChunkOf(chunk_i))
                /\ batch_embeddings' = Append(batch_embeddings, embedding)
           ELSE UNCHANGED <<batch_chapter_ids, batch_section_ids, batch_contents,
                            batch_embeddings>>
    /\ IF Len(batch_contents') >= BATCH_SIZE
       THEN job_pc' = "upload" /\ chunk_i' = chunk_i
       ELSE job_pc' = AfterChunk(chunk_i) /\ chunk_i' = chunk_i + 1
    /\ UNCHANGED <<upload_attempts, total_chunks_processed>>
    /\ JobUnchanged

\* index_markdown.py 173-221: the batch is full: one upload attempt, after
\* which the lists are cleared
UploadBatch ==
    /\ job_pc = "upload"
    /\ LET outcome == add_batch_embeddings_fast(batch_section_ids)
       IN  /\ upload_attempts' = Append(upload_attempts,
                                        [contents |-> batch_contents, final |-> FALSE,
                                         outcome |-> outcome])
           /\ total_chunks_processed' =
                 IF outcome.kind = "return" /\ outcome.val > 0
                 THEN total_chunks_processed + outcome.val ELSE total_chunks_processed
           /\ batch_chapter_ids' = AfterUpload(batch_chapter_ids, outcome)
           /\ batch_section_ids' = AfterUpload(batch_section_ids, outcome)
           /\ batch_contents' = AfterUpload(batch_contents, outcome)
           /\ batch_embeddings' = AfterUpload(batch_embeddings, outcome)
    /\ job_pc' = AfterChunk(chunk_i)
    /\ chunk_i' = chunk_i + 1
    /\ JobUnchanged

\* index_markdown.py 223-251: after the loop, one upload attempt for what
\* is left in the batch; the lists are not touched
FinalBatch ==
    /\ job_pc = "final"
    /\ IF batch_contents # <<>>
       THEN LET outcome == add_batch_embeddings_fast(batch_section_ids)
            IN  /\ upload_attempts' = Append(upload_attempts,
                                             [contents |-> batch_contents, final |-> TRUE,
                                              outcome |-> outcome])
                /\ total_chunks_processed' =
                      IF outcome.kind = "return" /\ outcome.val > 0
                      THEN total_chunks_processed + outcome.val
                      ELSE total_chunks_processed
       ELSE UNCHANGED <<upload_attempts, total_chunks_processed>>
    /\ job_pc' = "file_done"
    /\ UNCHANGED <<chunk_i, batch_chapter_ids, batch_section_ids, batch_contents,
                   batch_embeddings>>
    /\ JobUnchanged

NextJob == StartFile \/ EmbedChunk \/ UploadBatch \/ FinalBatch

SpecJob == InitJob /\ [][NextJob]_vars

BatchLengthsEqual ==
    /\ Len(batch_chapter_ids) = Len(batch_contents)
    /\ Len(batch_section_ids) = Len(batch_contents)
    /\ Len(batch_embeddings) = Len(batch_contents)

BatchEmpty ==
    /\ batch_chapter_ids = <<>>
    /\ batch_section_ids = <<>>
    /\ batch_contents = <<>>
    /\ batch_embeddings = <<>>

\* a step that makes an upload attempt
UploadAttempted == Len(upload_attempts') > Len(upload_attempts)

\* C27 (as claimed): the batch never holds more than BATCH_SIZE chunks, the
\* four lists are equally long, and the batch is empty after every upload
\* attempt.
C27_BatchEmptyAfterEveryUpload ==
    /\ [](Len(batch_contents) <= BATCH_SIZE /\ BatchLengthsEqual)
    /\ [][UploadAttempted => BatchEmpty']_vars

\* C27 (amended): the batch never holds more than BATCH_SIZE chunks, the
\* four lists are equally long, and the batch is empty after every upload
\* attempt made in the chunk loop; the attempt for the final partial batch
\* leaves the lists as they are.
C27_BatchBoundedAndCleared ==
    /\ [](Len(batch_contents) <= BATCH_SIZE /\ BatchLengthsEqual)
    /\ [][UploadAttempted /\ job_pc = "upload" => BatchEmpty']_vars
    /\ [][UploadAttempted /\ job_pc = "final" =>
             batch_contents' = batch_contents /\ batch_contents # <<>>]_vars

\* C27 witness: a full batch was attempted and cleared, and two chunks
\* are pending again.
C27_Witness ==
    /\ Len(upload_attempts) = 1
    /\ Len(batch_contents) = 2
    /\ job_pc = "embed"


\* ------------------------------------ what the job hands to the index
\* the upload calls that reached the index
ReceivedUploads == SelectSeq(upload_attempts, LAMBDA a : a.outcome.kind = "return")

RECURSIVE ContentsOf(_)
ContentsOf(uploads) ==
    IF uploads = <<>> THEN <<>> ELSE uploads[1].contents \o ContentsOf(Tail(uploads))

\* the chunks of the file whose embedding succeeded, in chunk order
EmbeddedChunks ==
    LET numbers == [k \in 1..Len(file_chunks) |-> k - 1]
        embedded == SelectSeq(numbers,
                              LAMBDA k : embed_text(file_chunks[k + 1]) # EmbNone)
    IN  [k \in 1..Len(embedded) |-> ChunkOf(embedded[k])]

\* C29 (as claimed): when the file is done, the chunks the upload calls
\* handed to the index are the chunks whose embedding succeeded, each once,
\* in chunk order, the final partial batch included, and no other chunk.
C29_EveryEmbeddedChunkUploadedOnce ==
    job_pc = "file_done" => ContentsOf(ReceivedUploads) = EmbeddedChunks


\* ------------------------- EmbeddingService.create_chapter_embeddings
MaxSections == 3        \* most sections of a chapter
ParagraphLen == 600     \* length of a paragraph of the chapters: two of
                        \* them do not fit a section of 1000 characters

SectionMaxLength == 1000

\* a chapter of n paragraphs
ChapterOf(n) == Join(ParagraphBreak, [k \in 1..n |-> Lit("p", ParagraphLen)])
ChapterContents == {ChapterOf(n) : n \in 0..MaxSections}
ChapterId == <<"c","1">>

SectionUps == {[kind |-> "vec", vec |-> EmbeddingVec], UpRaise(MsgTimeout)}

\* embeddings.py 24-85: the dict returned, the collection and the clock
\* afterwards.  ups[i] is what the upstream embedding call does for
\* section i, store_oks[i] whether the store takes the upsert of section i.
\* The search of lines 26-31 has no effect; the value add_batch_embeddings
\* returns is not looked at.
create_chapter_embeddings(cl, idx, t, c, ups, store_oks) ==
    LET sections == _split_content_into_sections(c, SectionMaxLength)
        numbers == [k \in 1..Len(sections) |-> k]
        kept == SelectSeq(numbers, LAMBDA k : embed_content(sections[k], ups[k]).val # <<>>)
        items == [k \in 1..Len(kept) |-> [chapter |-> ChapterId,
                                          store_ok |-> store_oks[kept[k]]]]
    IN  IF kept # <<>>
        THEN LET r == add_batch_embeddings(cl, idx, t, items)
             IN  [ret |-> [sections_processed |-> Len(kept), status |-> "success"],
                  index |-> r.index, now |-> r.now]
        ELSE [ret |-> [sections_processed |-> 0, status |-> "failed"],
              index |-> idx, now |-> t]

InitChapter ==
    /\ RagIdle /\ ConfidenceIdle /\ ChunkerIdle
    /\ ChunkTextIdle /\ TopicsIdle /\ RetryIdle /\ JobIdle
    /\ client \in {"None", "connected"}
    /\ index = << >> /\ now = 0 /\ op = [name |-> "__init__"]
    /\ inserted = 0 /\ removed = 0
    /\ chapter_content \in ChapterContents
    /\ force_rebuild \in BOOLEAN
    /\ section_ups \in [1..MaxSections -> SectionUps]
    /\ section_store_ok \in [1..MaxSections -> BOOLEAN]
    /\ chapter_result = <<>>

\* embeddings.py 108: one call of create_chapter_embeddings
CreateChapterEmbeddings ==
    /\ chapter_result = <<>>
    /\ LET r == create_chapter_embeddings(client, index, now, chapter_content,
                                          section_ups, section_store_ok)
       IN  /\ chapter_result' = << r.ret >>
           /\ index' = r.index
           /\ now' = r.now
    /\ UNCHANGED <<client, op, inserted, removed>>
    /\ UNCHANGED <<chapter_content, force_rebuild, section_ups, section_store_ok>>
    /\ UNCHANGED <<rag_vars, confidence_vars, chunker_vars, chunk_text_vars, topics_vars,
                   retry_vars, job_vars>>

NextChapter == CreateChapterEmbeddings

SpecChapter == InitChapter /\ [][NextChapter]_vars

\* C30 (as claimed): a result of status "success" with sections_processed
\* = n is returned only when n sections are stored in the collection; when
\* none is stored the status is not "success".
C30_SuccessMeansStored ==
    chapter_result # <<>> /\ chapter_result[1].status = "success" =>
        /\ Cardinality(DOMAIN index) = chapter_result[1].sections_processed
        /\ index # << >>

=============================================================================
